---- MODULE Spec2Model ----
(***************************************************************************)
(* A model of the ew proxy (newde36524/ew): the country range table and    *)
(* the routing decision (worker/ipLoader.go), the ECH dial with retry      *)
(* (worker/ech.go, dialWebSocketWithECH) and the tunnel session            *)
(* (worker/proxyClient.go with utils/websocket.go, and the older           *)
(* worker/proxyServer.go).                                                 *)
(***************************************************************************)
EXTENDS Integers, Sequences, FiniteSets, TLC

\* ------------------------------------------------------------------ bounds
\* An address byte ranges over 0..MaxByte (a byte of the source is 0..255).
MaxByte == 1
\* At most MaxRanges ranges in a range table drawn as an input.
MaxRanges == 2
\* At most MaxLines lines in a range file.
MaxLines == 2
\* At most MaxResolved addresses in one resolver answer.
MaxResolved == 2
\* At most MaxQuanta pieces in the text of an ech= parameter.
MaxQuanta == 2
\* At most MaxUp chunks are read from the client in a session.
MaxUp == 1
\* At most MaxDown data messages arrive from the relay in a session.
MaxDown == 1

VARIABLES
    \* worker/ipLoader.go: IPLoader
    routingMode,        \* IPLoader.routingMode
    chinaIPRanges,      \* IPLoader.chinaIPRanges: sequence of [start, end] (uint32)
    chinaIPV6Ranges,    \* IPLoader.chinaIPV6Ranges: sequence of [start, end] (byte arrays)
    data4,              \* the bytes ipv4DataSync.Sync() returns, as parsed lines
    loadErr,            \* the last LoadChinaIPList result: "none", "nil" or an error
    query,              \* the last call made on the IPLoader, with its arguments
    answer,             \* what that call returned
    \* worker/ech.go: Ech, and one call of dialWebSocketWithECH
    echList,            \* Ech.echList: the stored raw ECH config list (bytes)
    dpc,                \* where the call of dialWebSocketWithECH stands
    attempt,            \* its loop variable
    echBytes,           \* its local echBytes
    dialLog,            \* what the call did so far: refreshes and dials, in order
    dialRet,            \* what the call returned
    tlsCall,            \* the last direct call of BuildTLSConfigWithECH and its result
    \* one client connection handed to handleTunnel
    impl,               \* "client": worker/proxyClient.go with utils/websocket.go;
                        \* "server": handleTunnel of worker/proxyServer.go
    mode,               \* the mode argument: ModeSOCKS5, ModeHTTPConnect or ModeHTTPProxy
    route,              \* "direct" or "tunnel", by ShouldBypassProxy
    hpc,                \* where the goroutine of handleConnection / handleTunnel stands
    hret,               \* why handleTunnel returned
    reply,              \* the first message read after CONNECT
    kpc,                \* the keep-alive goroutine
    cpc,                \* the client-to-server forwarding goroutine
    spc,                \* the server-to-client forwarding goroutine
    writers,            \* the goroutines inside wsConn.WriteMessage
    mu,                 \* proxyServer.go: who holds mu
    ws,                 \* the upstream WebSocket: "none", "open", "closed"
    stopPing,           \* stopPing is closed
    connOpen,           \* the client socket is open
    doneClosed,         \* ProxyClient.done is closed
    doneBuf,            \* values buffered in done (make(chan bool, 2))
    clientOut,          \* the writes issued on the client socket, in order
    wsOut,              \* the messages written upstream, pings left out
    up,                 \* chunks read from the client so far
    down,               \* data messages read from the relay so far
    \* worker/ipLoader.go: a reload and a lookup running side by side
    data6,              \* the bytes ipv6DataSync.Sync() returns, as parsed lines
    ldpc,               \* where LoadChinaIPList / LoadChinaIPV6List stands
    lfam,               \* which of the two it is: 4 or 6
    lranges,            \* its local slice ranges
    mutex,              \* chinaIPRangesMu (4) and chinaIPV6RangesMu (6)
    rpc,                \* where IsChinaIP stands
    rip,                \* its address
    \* ProxyServer.Run: the call of LoadWithRoutingMode at startup
    startup,            \* where Run stands, how each load ended, the lines logged
    \* one client connection: what passes through it
    clientIn,           \* the chunks clientToServer read from the client socket
    wsIn,               \* the messages serverToClient read from the relay
    firstFail,          \* the leg that failed first in the forwarding phase
    torn,               \* the goroutines whose WriteMessage overlapped another's
    deadline,           \* the client socket has a deadline set
    \* handleConnection: the dispatch of an accepted connection
    dispatch,           \* where it stands, the first byte, what the front-end read
    \* handleSOCKS5 / handleHTTP: the front-end of one connection
    front,              \* where it stands, what it parsed, the call it ends with
    \* utils.HandleDirectConnection: one direct session
    direct,             \* where it stands and its effects, in order
    \* handleUDPAssociate: one UDP association
    udp,                \* the TCP anchor, the UDP socket, the relay and its queries
    \* runProxyServer: the accept loop and the connections it spawned
    srv,                \* the listener, the process, the per-connection tasks
    \* worker/ech.go: concurrent calls on one Ech
    ech,                \* the calls under way, echListMu, what each call returned
    \* utils: the system proxy settings and the state saved from them
    sysproxy,           \* the settings of the system, originalProxyState, the calls made
    \* utils/store.go: concurrent GetOrStore calls on one Store
    store,              \* the stored value, the lock, the calls under way
    \* the connect request of one tunnel, in each version of the code
    est,                \* the version, the first frame, what the client has sent
    \* worker/proxyClient.go: the end of a session, channel operation by channel operation
    sess                \* the handler in wait, the two forwarding tasks, done, stopPing

rangeVars == <<routingMode, chinaIPRanges, chinaIPV6Ranges, data4, loadErr, query, answer>>

dialVars == <<echList, dpc, attempt, echBytes, dialLog, dialRet, tlsCall>>

tunnelVars ==
    <<impl, mode, route, hpc, hret, reply, kpc, cpc, spc, writers, mu, ws, stopPing,
      connOpen, doneClosed, doneBuf, clientOut, wsOut, up, down>>

reloadVars == <<data6, ldpc, lfam, lranges, mutex, rpc, rip, startup>>

flowVars == <<clientIn, wsIn, firstFail, torn, deadline>>

frontVars == <<front, direct, udp, srv>>

auxVars == <<ech, sysproxy, store, est, sess>>

vars == <<rangeVars, dialVars, tunnelVars, reloadVars, auxVars, flowVars, dispatch, frontVars>>

notRangeVars == <<dialVars, tunnelVars, reloadVars, auxVars, flowVars, dispatch, frontVars>>
notDialVars == <<rangeVars, tunnelVars, reloadVars, auxVars, flowVars, dispatch, frontVars>>
notTunnelVars == <<rangeVars, dialVars, reloadVars, auxVars, flowVars, dispatch, frontVars>>
notSessionVars == <<rangeVars, dialVars, reloadVars, auxVars, dispatch, frontVars>>
notLoaderVars == <<dialVars, tunnelVars, flowVars, dispatch, frontVars, auxVars>>

\* worker/proxyClient.go:167, worker/proxyServer.go:246: dialWebSocketWithECH(2)
maxRetries == 2

\* utils/init.go:20-24
ModeSOCKS5 == 1
ModeHTTPConnect == 2
ModeHTTPProxy == 3

\* ------------------------------------------------------- worker/ech.go:119-125
None == "none"
Global == "global"
BypassCN == "bypass_cn"

\* ------------------------------------------------------------- addresses
\* A parsed net.IP: fam 4 is an address with a 4-byte form (To4() # nil), fam 6
\* any other address; b holds its bytes, most significant first (here two bytes
\* stand for the 4 and the 16 of the source).  NotIP is a string net.ParseIP rejects.
Bytes == 0 .. MaxByte
Base == MaxByte + 1
Addr4 == [fam : {4}, b : Bytes \X Bytes]
Addr6 == [fam : {6}, b : Bytes \X Bytes]
NotIP == [fam |-> 0, b |-> <<>>]
Addrs == Addr4 \cup Addr6

\* utils.IpToUint32: 0 when the address has no 4-byte form, else the big-endian value.
IpToUint32(ip) ==
    IF ip.fam # 4 THEN 0 ELSE ip.b[1] * Base + ip.b[2]

RECURSIVE CompareFrom(_, _, _)
\* the loop of utils.CompareIPv6, from index i on
CompareFrom(a, b, i) ==
    IF i > Len(a) THEN 0
    ELSE IF a[i] < b[i] THEN -1
    ELSE IF a[i] > b[i] THEN 1
    ELSE CompareFrom(a, b, i + 1)

RECURSIVE CompareBack(_, _, _)
CompareBack(a, b, i) ==
    IF i < 1 THEN 0
    ELSE IF a[i] < b[i] THEN -1
    ELSE IF a[i] > b[i] THEN 1
    ELSE CompareBack(a, b, i - 1)

\* utils.CompareIPv6 comparing the least significant byte first (a plausible slip).
CompareIPv6LittleEndian(a, b) == CompareBack(a, b, Len(a))

\* utils.CompareIPv6: -1, 0 or 1, the first differing byte decides.
CompareIPv6(a, b) == CompareFrom(a, b, 1)

\* ------------------------------------------------- IPLoader.IsChinaIP
RECURSIVE SearchV4(_, _, _, _)
\* the binary search of IsChinaIP over chinaIPRanges (left, right are 0-based)
SearchV4(ranges, u, left, right) ==
    IF left >= right THEN FALSE
    ELSE LET mid == (left + right) \div 2
             r == ranges[mid + 1]
         IN  IF u < r.start THEN SearchV4(ranges, u, left, mid)
             ELSE IF u > r.end THEN SearchV4(ranges, u, mid + 1, right)
             ELSE TRUE

RECURSIVE SearchV6(_, _, _, _)
\* the binary search of IsChinaIP over chinaIPV6Ranges
SearchV6(ranges, a, left, right) ==
    IF left >= right THEN FALSE
    ELSE LET mid == (left + right) \div 2
             r == ranges[mid + 1]
         IN  IF CompareIPv6(a, r.start) < 0 THEN SearchV6(ranges, a, left, mid)
             ELSE IF CompareIPv6(a, r.end) > 0 THEN SearchV6(ranges, a, mid + 1, right)
             ELSE TRUE

\* IPLoader.IsChinaIP on the tables r4, r6
IsChinaIPIn(r4, r6, ip) ==
    IF ip.fam = 0 THEN FALSE
    ELSE IF ip.fam = 4
         THEN LET u == IpToUint32(ip)
              IN  IF u = 0 THEN FALSE ELSE SearchV4(r4, u, 0, Len(r4))
         ELSE SearchV6(r6, ip.b, 0, Len(r6))

\* --------------------------------------------- IPLoader.ShouldBypassProxy
\* A target host is an IP literal, or a name with what net.LookupIP answers for it.
Resolutions ==
    {[err |-> TRUE, ips |-> <<>>]}
        \cup {[err |-> FALSE, ips |-> s] :
                s \in UNION {[1 .. k -> Addrs] : k \in 0 .. MaxResolved}}
NoResolution == [err |-> TRUE, ips |-> <<>>]
Hosts ==
    {[kind |-> "ip", ip |-> a, res |-> NoResolution] : a \in Addrs}
        \cup {[kind |-> "name", ip |-> NotIP, res |-> r] : r \in Resolutions}

\* a ShouldBypassProxy that takes every mode but global for none
ShouldBypassProxyInDirectDefault(rm, r4, r6, host) == rm # Global

\* IPLoader.ShouldBypassProxy under routing mode rm and the tables r4, r6
ShouldBypassProxyIn(rm, r4, r6, host) ==
    IF rm = None THEN TRUE
    ELSE IF rm = Global THEN FALSE
    ELSE IF rm = BypassCN
         THEN IF host.kind = "ip" THEN IsChinaIPIn(r4, r6, host.ip)
              ELSE IF host.res.err THEN FALSE
              ELSE \E i \in 1 .. Len(host.res.ips) : IsChinaIPIn(r4, r6, host.res.ips[i])
         ELSE FALSE

\* -------------------------------------------- IPLoader.LoadChinaIPList
\* A line of the range file: its first two fields as net.ParseIP reads them.
LineIPs == Addr4 \cup {NotIP}
Lines == [s : LineIPs, e : LineIPs]
Files == UNION {[1 .. k -> Lines] : k \in 0 .. MaxLines}

RECURSIVE ParseLines(_, _)
\* the scanner loop of LoadChinaIPList from line i on: the ranges appended
ParseLines(data, i) ==
    IF i > Len(data) THEN <<>>
    ELSE LET line == data[i]
             start == IpToUint32(line.s)
             end == IpToUint32(line.e)
             rest == ParseLines(data, i + 1)
         IN  IF line.s.fam = 0 \/ line.e.fam = 0 THEN rest
             ELSE IF start > 0 /\ end > 0 /\ start <= end
                  THEN <<[start |-> start, end |-> end]>> \o rest
                  ELSE rest

Swap(r, i, j) == [r EXCEPT ![i] = r[j], ![j] = r[i]]

RECURSIVE SortByStart(_, _, _)
\* the two nested loops of LoadChinaIPList (i, j are 0-based)
SortByStart(r, i, j) ==
    IF i >= Len(r) - 1 THEN r
    ELSE IF j >= Len(r) THEN SortByStart(r, i + 1, i + 2)
    ELSE SortByStart(IF r[i + 1].start > r[j + 1].start THEN Swap(r, i + 1, j + 1) ELSE r,
                     i, j + 1)

\* LoadChinaIPList storing the ranges in the order of the file
LoadedRangesUnsorted(data) == ParseLines(data, 1)

\* the table LoadChinaIPList stores for the file data (empty: it stores none)
LoadedRanges(data) == SortByStart(ParseLines(data, 1), 0, 1)

\* ------------------------------------------------------------ tables
U32s == 1 .. (Base * Base - 1)
ValidRanges4 == {r \in [start : U32s, end : U32s] : r.start <= r.end}
\* the unsigned big-endian value of a byte array
ValueOf(b) == b[1] * Base + b[2]
ValidRanges6 ==
    {r \in [start : Bytes \X Bytes, end : Bytes \X Bytes] : ValueOf(r.start) <= ValueOf(r.end)}

SortedByStart4(t) == \A i \in 1 .. Len(t) - 1 : t[i].start <= t[i + 1].start
SortedByStart6(t) == \A i \in 1 .. Len(t) - 1 : ValueOf(t[i].start) <= ValueOf(t[i + 1].start)
NonOverlapping4(t) == \A i \in 1 .. Len(t) - 1 : t[i].end < t[i + 1].start
NonOverlapping6(t) == \A i \in 1 .. Len(t) - 1 : ValueOf(t[i].end) < ValueOf(t[i + 1].start)
InSomeRange4(t, u) == \E i \in 1 .. Len(t) : t[i].start <= u /\ u <= t[i].end
InSomeRange6(t, a) ==
    \E i \in 1 .. Len(t) : ValueOf(t[i].start) <= ValueOf(a) /\ ValueOf(a) <= ValueOf(t[i].end)

\* The tables a load can leave: valid ranges in ascending order of start.
Tables4 == {t \in UNION {[1 .. k -> ValidRanges4] : k \in 0 .. MaxRanges} : SortedByStart4(t)}
Tables6 == {t \in UNION {[1 .. k -> ValidRanges6] : k \in 0 .. MaxRanges} : SortedByStart6(t)}

NoQuery == [op |-> "none"]

\* no load and no stepwise lookup under way
Unlocked == [f \in {4, 6} |-> "free"]
NotStarted == [pc |-> "idle", r4 |-> "none", r6 |-> "none", log |-> <<>>]
LoaderIdle ==
    /\ ldpc = "idle"
    /\ lfam = 0
    /\ lranges = <<>>
    /\ mutex = Unlocked
    /\ rpc = "idle"
    /\ rip = NotIP
    /\ startup = NotStarted
ReloadIdle == data6 = <<>> /\ LoaderIdle

\* a connection accepted and nothing done on it yet
NoReply == [err |-> FALSE, msg |-> <<>>, read |-> FALSE]
NoFront == [pc |-> "none"]
NoDirect == [pc |-> "none"]
NoUDP == [pc |-> "none"]
NoServer == [pc |-> "none"]
FrontIdle ==
    /\ front = NoFront
    /\ direct = NoDirect
    /\ udp = NoUDP
    /\ srv = NoServer
NotAccepted == [pc |-> "none", stream |-> <<>>, pos |-> 0, first |-> 0, to |-> "none", seen |-> <<>>]
SessionIdle ==
    /\ mode = 0
    /\ route = "none"
    /\ hpc = "idle"
    /\ hret = "none"
    /\ reply = NoReply
    /\ kpc = "none"
    /\ cpc = "none"
    /\ spc = "none"
    /\ writers = {}
    /\ mu = "free"
    /\ ws = "none"
    /\ stopPing = FALSE
    /\ connOpen = TRUE
    /\ doneClosed = FALSE
    /\ doneBuf = 0
    /\ clientOut = <<>>
    /\ wsOut = <<>>
    /\ up = 0
    /\ down = 0
    /\ clientIn = <<>>
    /\ wsIn = <<>>
    /\ firstFail = "none"
    /\ torn = {}
    /\ deadline = FALSE
    /\ dispatch = NotAccepted
    /\ FrontIdle
TunnelIdle == impl = "client" /\ SessionIdle

\* NewEch and no call of dialWebSocketWithECH under way
NoReturn == [kind |-> "none"]
NoTLSCall == [called |-> FALSE]
NoDial ==
    /\ echList = <<>>
    /\ dpc = "idle"
    /\ attempt = 0
    /\ echBytes = <<>>
    /\ dialLog = <<>>
    /\ dialRet = NoReturn
    /\ tlsCall = NoTLSCall
\* no concurrent call on the Ech, no call on the system proxy or on a Store
NoEch == [pc |-> "none"]
NoSysProxy == [pc |-> "none"]
NoStore == [pc |-> "none"]
NoEst == [pc |-> "none"]
NoSess == [pc |-> "none"]
AuxIdle ==
    /\ ech = NoEch
    /\ sysproxy = NoSysProxy
    /\ store = NoStore
    /\ est = NoEst
    /\ sess = NoSess
DialIdle == NoDial /\ AuxIdle

\* ------------------------------------------------------ range actions
\* NewIPLoader, then a load: the state a lookup runs in.
InitLookup ==
    /\ DialIdle
    /\ TunnelIdle
    /\ ReloadIdle
    /\ routingMode = BypassCN
    /\ \/ chinaIPRanges \in Tables4 /\ chinaIPV6Ranges = <<>>
       \/ chinaIPRanges = <<>> /\ chinaIPV6Ranges \in Tables6
    /\ data4 = <<>>
    /\ loadErr = "none"
    /\ query = NoQuery
    /\ answer = FALSE

\* IPLoader.IsChinaIP(ipStr)
IsChinaIP ==
    \E ip \in Addrs \cup {NotIP} :
        /\ query' = [op |-> "IsChinaIP", ip |-> ip]
        /\ answer' = IsChinaIPIn(chinaIPRanges, chinaIPV6Ranges, ip)
        /\ UNCHANGED <<routingMode, chinaIPRanges, chinaIPV6Ranges, data4, loadErr>>
        /\ UNCHANGED notRangeVars

NextLookup == IsChinaIP

SpecLookup == InitLookup /\ [][NextLookup]_vars

\* C9: on a table sorted ascending by start whose ranges do not overlap, IsChinaIP(ip)
\* is true iff some range has start <= ip <= end, for IPv4 (compared as unsigned
\* integers) and for IPv6 (compared as big-endian byte arrays) alike.
C9_LookupExact ==
    query.op = "IsChinaIP" =>
        /\ (query.ip.fam = 4 /\ SortedByStart4(chinaIPRanges) /\ NonOverlapping4(chinaIPRanges))
              => (answer = InSomeRange4(chinaIPRanges, ValueOf(query.ip.b)))
        /\ (query.ip.fam = 6 /\ SortedByStart6(chinaIPV6Ranges) /\ NonOverlapping6(chinaIPV6Ranges))
              => (answer = InSomeRange6(chinaIPV6Ranges, query.ip.b))

\* C9: an IPv6 address found in the second of two disjoint ranges.
C9_Witness ==
    /\ query.op = "IsChinaIP" /\ query.ip.fam = 6
    /\ Len(chinaIPV6Ranges) = 2 /\ NonOverlapping6(chinaIPV6Ranges)
    /\ answer = TRUE
    /\ ValueOf(chinaIPV6Ranges[2].start) <= ValueOf(query.ip.b)

\* ------------------------------------------------------ routing decision
\* The routing modes NewIPLoader may be given: the three of worker/ech.go and a
\* string that is none of them.
RoutingModes == {None, Global, BypassCN, "auto"}

\* NewIPLoader(routingMode), then the tables a load left.
InitRoute ==
    /\ DialIdle
    /\ TunnelIdle
    /\ ReloadIdle
    /\ routingMode \in RoutingModes
    /\ \/ chinaIPRanges \in Tables4 /\ chinaIPV6Ranges = <<>>
       \/ chinaIPRanges = <<>> /\ chinaIPV6Ranges \in Tables6
    /\ data4 = <<>>
    /\ loadErr = "none"
    /\ query = NoQuery
    /\ answer = FALSE

\* IPLoader.ShouldBypassProxy(targetHost); a name comes with net.LookupIP's answer
ShouldBypassProxy ==
    \E host \in Hosts :
        /\ query' = [op |-> "ShouldBypassProxy", host |-> host]
        /\ answer' = ShouldBypassProxyIn(routingMode, chinaIPRanges, chinaIPV6Ranges, host)
        /\ UNCHANGED <<routingMode, chinaIPRanges, chinaIPV6Ranges, data4, loadErr>>
        /\ UNCHANGED notRangeVars

NextRoute == ShouldBypassProxy

SpecRoute == InitRoute /\ [][NextRoute]_vars

\* an address lies inside the live range table: some range has start <= ip <= end
InRangeTable(ip) ==
    IF ip.fam = 4 THEN InSomeRange4(chinaIPRanges, ValueOf(ip.b))
    ELSE InSomeRange6(chinaIPV6Ranges, ip.b)

\* C6: ShouldBypassProxy follows the routing mode: none is always direct, global
\* always tunnel, and bypass_cn is direct iff the IP literal, or one of the
\* addresses the name resolves to, lies inside the range table (tunnel when the
\* resolution fails).
C6_RoutingFollowsMode ==
    query.op = "ShouldBypassProxy" =>
        /\ routingMode = None => answer = TRUE
        /\ routingMode = Global => answer = FALSE
        /\ routingMode = BypassCN =>
              answer = (IF query.host.kind = "ip" THEN InRangeTable(query.host.ip)
                        ELSE /\ ~query.host.res.err
                             /\ \E i \in 1 .. Len(query.host.res.ips) :
                                    InRangeTable(query.host.res.ips[i]))

\* ------------------------------------------------------ loading the table
\* NewIPLoader: empty tables; data4 is what the data source holds.
InitLoad ==
    /\ DialIdle
    /\ TunnelIdle
    /\ ReloadIdle
    /\ routingMode = BypassCN
    /\ chinaIPRanges = <<>>
    /\ chinaIPV6Ranges = <<>>
    /\ data4 \in Files
    /\ loadErr = "none"
    /\ query = NoQuery
    /\ answer = FALSE

\* IPLoader.LoadChinaIPList: Sync fails, or no valid range, or the table is replaced
LoadChinaIPList ==
    \E syncOK \in BOOLEAN :
        /\ IF ~syncOK
           THEN loadErr' = "sync" /\ UNCHANGED chinaIPRanges
           ELSE IF Len(ParseLines(data4, 1)) = 0
                THEN loadErr' = "empty" /\ UNCHANGED chinaIPRanges
                ELSE loadErr' = "nil" /\ chinaIPRanges' = LoadedRanges(data4)
        /\ query' = [op |-> "LoadChinaIPList"]
        /\ UNCHANGED <<routingMode, chinaIPV6Ranges, data4, answer>>
        /\ UNCHANGED notRangeVars

NextLoad == LoadChinaIPList \/ IsChinaIP

SpecLoad == InitLoad /\ [][NextLoad]_vars

RECURSIVE SubFile(_, _, _)
\* the lines of data whose index is in keep, in the file's order
SubFile(data, keep, i) ==
    IF i > Len(data) THEN <<>>
    ELSE (IF i \in keep THEN <<data[i]>> ELSE <<>>) \o SubFile(data, keep, i + 1)

\* C10: the lookup is monotone under inclusion of datasets: an address found in
\* the table loaded from a part of the file is found in the table loaded from
\* the whole file.
C10_LookupMonotone ==
    (loadErr = "nil" /\ chinaIPRanges = LoadedRanges(data4)) =>
        \A keep \in SUBSET (1 .. Len(data4)) : \A ip \in Addr4 :
            IsChinaIPIn(LoadedRanges(SubFile(data4, keep, 1)), <<>>, ip)
                => IsChinaIPIn(chinaIPRanges, chinaIPV6Ranges, ip)

\* ------------------------------------------------------ ECH configuration
\* What utils.QueryHTTPSRecord hands back: an error, or the text of the ech=
\* parameter, here a run of pieces: a newline, a character outside the base64
\* alphabet, or a full base64 group ("AQEB" is the bytes 01 01 01).
Quanta == {"\n", "?", "AQEB"}
EchTexts == UNION {[1 .. k -> Quanta] : k \in 0 .. MaxQuanta}
QueryHTTPSRecordResults ==
    {[err |-> TRUE, text |-> <<>>]} \cup {[err |-> FALSE, text |-> t] : t \in EchTexts}

\* the bytes a full base64 group stands for
GroupBytes(g) == IF g = "AQEB" THEN <<1, 1, 1>> ELSE <<>>

RECURSIVE DecodeString(_, _)
\* base64.StdEncoding.DecodeString: newlines are skipped, a character outside
\* the alphabet is an error, a group decodes to its bytes
DecodeString(text, i) ==
    IF i > Len(text) THEN [err |-> FALSE, raw |-> <<>>]
    ELSE IF text[i] = "?" THEN [err |-> TRUE, raw |-> <<>>]
    ELSE LET rest == DecodeString(text, i + 1)
         IN  IF rest.err THEN rest
             ELSE [err |-> FALSE,
                   raw |-> (IF text[i] = "\n" THEN <<>> ELSE GroupBytes(text[i])) \o rest.raw]

\* Ech.PrepareECH on a query result q: the error it returns and the list it leaves
PrepareECHOn(q, old) ==
    IF q.err THEN [err |-> "dns", list |-> old]
    ELSE IF Len(q.text) = 0 THEN [err |-> "missing", list |-> old]
    ELSE LET d == DecodeString(q.text, 1)
         IN  IF d.err THEN [err |-> "decode", list |-> old]
             ELSE [err |-> "nil", list |-> d.raw]

\* a GetECHList that hands out whatever is stored
GetECHListUnchecked(list) == [err |-> FALSE, list |-> list]

\* Ech.GetECHList
GetECHListOn(list) ==
    IF Len(list) = 0 THEN [err |-> TRUE, list |-> <<>>] ELSE [err |-> FALSE, list |-> list]

\* Ech.BuildTLSConfigWithECH: libOK is whether utils.BuildTLSConfigWithECH and
\* setECHConfig succeed
BuildTLSConfigWithECHOn(list, libOK) ==
    IF Len(list) = 0 THEN "empty" ELSE IF ~libOK THEN "tls" ELSE "nil"

\* the lists a caller may hand to BuildTLSConfigWithECH
EchLists == {DecodeString(t, 1).raw : t \in EchTexts}

\* a retry after every failed dial but the last
RetryOnAnyError(hasECH, n) == n < maxRetries

\* the dial error is retried: its message contains "ECH" and attempts remain
RetryDial(hasECH, n) == hasECH /\ n < maxRetries

Dials(log) == SelectSeq(log, LAMBDA e : e.e = "dial")
Refreshes(log) == SelectSeq(log, LAMBDA e : e.e = "refresh")

\* return from dialWebSocketWithECH
Return(r) ==
    /\ dialRet' = r
    /\ dpc' = "done"

\* Ech.PrepareECH / RefreshECH called by another goroutine (startup, another session)
PrepareECH ==
    \E q \in QueryHTTPSRecordResults :
        /\ echList' = PrepareECHOn(q, echList).list
        /\ UNCHANGED <<dpc, attempt, echBytes, dialLog, dialRet, tlsCall>>
        /\ UNCHANGED notDialVars

\* Ech.BuildTLSConfigWithECH called with any list
BuildTLSConfigWithECH ==
    \E list \in EchLists, libOK \in BOOLEAN :
        /\ tlsCall' = [called |-> TRUE, list |-> list,
                       err |-> BuildTLSConfigWithECHOn(list, libOK)]
        /\ UNCHANGED <<echList, dpc, attempt, echBytes, dialLog, dialRet>>
        /\ UNCHANGED notDialVars

\* dialWebSocketWithECH(2) is called: ParseServerAddr, then the loop is entered
DialStart ==
    /\ dpc \in {"idle", "done"}
    /\ \E addrOK \in BOOLEAN :
        /\ attempt' = 1
        /\ echBytes' = <<>>
        /\ dialLog' = <<>>
        /\ IF addrOK THEN dpc' = "loop" /\ dialRet' = NoReturn
           ELSE Return([kind |-> "err", from |-> "addr"])
    /\ UNCHANGED <<echList, tlsCall>>
    /\ UNCHANGED notDialVars

\* the loop head and p.Ech.GetECHList()
DialGetECHList ==
    /\ dpc = "loop"
    /\ IF attempt > maxRetries
       THEN Return([kind |-> "err", from |-> "retries"]) /\ UNCHANGED echBytes
       ELSE LET got == GetECHListOn(echList)
            IN  IF got.err
                THEN /\ UNCHANGED echBytes
                     /\ IF attempt < maxRetries
                        THEN dpc' = "refresh" /\ UNCHANGED dialRet
                        ELSE Return([kind |-> "err", from |-> "ech"])
                ELSE /\ echBytes' = got.list
                     /\ dpc' = "build"
                     /\ UNCHANGED dialRet
    /\ UNCHANGED <<echList, attempt, dialLog, tlsCall>>
    /\ UNCHANGED notDialVars

\* p.Ech.RefreshECH() (its error is dropped), then continue: attempt++
DialRefreshECH ==
    /\ dpc = "refresh"
    /\ \E q \in QueryHTTPSRecordResults :
        echList' = PrepareECHOn(q, echList).list
    /\ dialLog' = Append(dialLog, [e |-> "refresh"])
    /\ attempt' = attempt + 1
    /\ dpc' = "loop"
    /\ UNCHANGED <<echBytes, dialRet, tlsCall>>
    /\ UNCHANGED notDialVars

\* p.Ech.BuildTLSConfigWithECH(ServerAddr, echBytes)
DialBuildTLS ==
    /\ dpc = "build"
    /\ \E libOK \in BOOLEAN :
        LET tlsErr == BuildTLSConfigWithECHOn(echBytes, libOK)
        IN  IF tlsErr # "nil"
            THEN Return([kind |-> "err", from |-> "tls"])
            ELSE dpc' = "dial" /\ UNCHANGED dialRet
    /\ UNCHANGED <<echList, attempt, echBytes, dialLog, tlsCall>>
    /\ UNCHANGED notDialVars

\* dialer.Dial(wsURL, nil): success, or an error whose message has "ECH" or not
DialDial ==
    /\ dpc = "dial"
    /\ \E out \in {"ok", "errECH", "errOther"} :
        LET n == Len(Dials(dialLog)) + 1
        IN  /\ dialLog' = Append(dialLog, [e |-> "dial", n |-> n, a |-> attempt, ech |-> echBytes,
                                         out |-> out])
            /\ IF out = "ok" THEN Return([kind |-> "ok"])
               ELSE IF RetryDial(out = "errECH", attempt)
                    THEN dpc' = "refresh" /\ UNCHANGED dialRet
                    ELSE Return([kind |-> "err", from |-> "dial", n |-> n])
    /\ UNCHANGED <<echList, attempt, echBytes, tlsCall>>
    /\ UNCHANGED notDialVars

RangeIdle ==
    /\ routingMode = Global
    /\ chinaIPRanges = <<>>
    /\ chinaIPV6Ranges = <<>>
    /\ data4 = <<>>
    /\ loadErr = "none"
    /\ query = NoQuery
    /\ answer = FALSE

InitDial == RangeIdle /\ DialIdle /\ TunnelIdle /\ ReloadIdle

NextDial ==
    \/ PrepareECH
    \/ BuildTLSConfigWithECH
    \/ DialStart
    \/ DialGetECHList
    \/ DialRefreshECH
    \/ DialBuildTLS
    \/ DialDial

SpecDial == InitDial /\ [][NextDial]_vars

Modes == {ModeSOCKS5, ModeHTTPConnect, ModeHTTPProxy}

\* what the code writes on the client socket, a byte or a string per element
Socks5Success == <<"05", "00", "00", "01", "00", "00", "00", "00", "00", "00">>
Socks5Failure == <<"05", "04", "00", "01", "00", "00", "00", "00", "00", "00">>
Http200 == <<"HTTP/1.1 200 Connection Established\r\n\r\n">>
Http502 == <<"HTTP/1.1 502 Bad Gateway\r\n\r\n">>

Synth(data) == [k |-> "synth", data |-> data]
Payload == [k |-> "payload", data |-> <<"msg">>]

\* utils.SendErrorResponse: the writes it issues on a socket that saw out so far
SendErrorResponse(out, m) ==
    IF m = ModeSOCKS5 THEN Append(out, Synth(Socks5Failure))
    ELSE IF m \in {ModeHTTPConnect, ModeHTTPProxy} THEN Append(out, Synth(Http502))
    ELSE out

\* a SendSuccessResponse that answers 200 to a plain HTTP request as well
SendSuccessResponseAllModes(out, m) ==
    IF m = ModeSOCKS5 THEN Append(out, Synth(Socks5Success))
    ELSE Append(out, Synth(Http200))

\* a SendSuccessResponse that answers every mode with the HTTP status line
SendSuccessResponseHttpOnly(out, m) ==
    IF m = ModeHTTPProxy THEN out ELSE Append(out, Synth(Http200))

\* utils.SendSuccessResponse: nothing is written in ModeHTTPProxy
SendSuccessResponse(out, m) ==
    IF m = ModeSOCKS5 THEN Append(out, Synth(Socks5Success))
    ELSE IF m = ModeHTTPConnect THEN Append(out, Synth(Http200))
    ELSE out

\* messages of the relay, a character per element
CONNECTED == <<"C", "O", "N", "N", "E", "C", "T", "E", "D">>
ErrorPrefix == <<"E", "R", "R", "O", "R", ":">>
CLOSE == <<"C", "L", "O", "S", "E">>
FirstMessages ==
    {CONNECTED, ErrorPrefix, ErrorPrefix \o <<"x">>, CONNECTED \o <<"\n">>, <<>>, CLOSE,
     <<"c", "o", "n", "n", "e", "c", "t", "e", "d">>}
ReadResults ==
    {[err |-> TRUE, msg |-> <<>>, read |-> TRUE]}
        \cup {[err |-> FALSE, msg |-> m, read |-> TRUE] : m \in FirstMessages}

\* strings.HasPrefix
HasPrefix(str, prefix) ==
    Len(str) >= Len(prefix) /\ SubSeq(str, 1, Len(prefix)) = prefix

\* a reading of the first message that takes every message for CONNECTED
VerdictAnyMessage(r) == IF r.err THEN "read" ELSE "connected"

\* how the first message after CONNECT is taken
Verdict(r) ==
    IF r.err THEN "read"
    ELSE IF HasPrefix(r.msg, ErrorPrefix) THEN "refused"
    ELSE IF r.msg # CONNECTED THEN "unexpected"
    ELSE "connected"

\* a WebSocket message: its type and its payload
Text(msg) == [mt |-> "text", msg |-> msg]
Binary(msg) == [mt |-> "binary", msg |-> msg]

\* the CONNECT:target|firstFrame request
ConnectMessage == Text(<<"CONNECT">>)

\* what conn.Read hands to clientToServer
Chunks == {<<"a">>, <<"b">>}

\* what ReadMessage hands to serverToClient
DownMessages == {Text(CLOSE), Binary(CLOSE), Text(CONNECTED), Binary(<<"msg">>)}

\* conn.Write(msg) as issued on the client socket
Written(msg) == [k |-> "payload", data |-> msg]

\* serverToClient ending on every message that spells CLOSE, text or not
IsCloseAnyType(m) == Len(m.msg) = 5 /\ m.msg = CLOSE

\* serverToClient: mt == websocket.TextMessage, len(msg) == 5 && string(msg) == "CLOSE"
IsClose(m) == m.mt = "text" /\ Len(m.msg) = 5 /\ m.msg = CLOSE

\* clientToServer going back to its loop after every write that went out
AfterWriteLoops(at, ok) == IF ok THEN "read" ELSE "exit"

\* clientToServer after WriteMessage returned: the loop goes on after a chunk
\* that went out; after CLOSE, and after an error, it returns
AfterWrite(at, ok) == IF ok /\ at = "writingData" THEN "read" ELSE "exit"

\* the leg whose failure is the first of the forwarding phase
FirstToFail(leg) == IF firstFail = "none" THEN leg ELSE firstFail

\* What the relay receives of a message written by who: WriteMessage of
\* utils/websocket.go takes no lock, and two calls that overlap on one gorilla
\* connection race on its write buffer, so either frame may come out mangled.
Sent(who, m) == IF who \in torn THEN {m, [mt |-> m.mt, msg |-> <<"torn">>]} ELSE {m}

\* handleTunnel returns after the dial succeeded: proxyServer.go runs its defers
\* (close(stopPing), wsConn.Close()); ProxyClient.connenct / handleTunnel have none
ReturnAfterDial(why) ==
    /\ hret' = why
    /\ hpc' = "returned"
    /\ IF impl = "server" THEN stopPing' = TRUE /\ ws' = "closed"
       ELSE UNCHANGED <<stopPing, ws>>

\* a goroutine enters wsConn.WriteMessage; proxyServer.go locks mu first
EnterWrite(who) ==
    /\ impl = "server" => mu = "free"
    /\ mu' = IF impl = "server" THEN who ELSE mu
    /\ writers' = writers \cup {who}
    /\ torn' = IF writers = {} THEN torn ELSE torn \cup writers \cup {who}

\* ... and leaves it
LeaveWrite(who) ==
    /\ mu' = IF impl = "server" THEN "free" ELSE mu
    /\ writers' = writers \ {who}
    /\ torn' = torn \ {who}

\* handleTunnel(target, mode, firstFrame): ShouldBypassProxy picks the route.
\* handleConnection of proxyServer.go has put a 30 s deadline on the socket at
\* accept; that of ProxyClient (ReadFirstByte) sets none.
HandleTunnel ==
    /\ hpc = "idle"
    /\ \E m \in Modes, bypass \in BOOLEAN :
        /\ mode' = m
        /\ route' = IF bypass THEN "direct" ELSE "tunnel"
        /\ hpc' = IF bypass THEN "direct" ELSE "dial"
    /\ UNCHANGED <<impl, hret, reply, kpc, cpc, spc, writers, mu, ws, stopPing, connOpen,
                   doneClosed, doneBuf, clientOut, wsOut, up, down>>
    /\ deadline' = (impl = "server")
    /\ UNCHANGED <<clientIn, wsIn, firstFail, torn>>
    /\ UNCHANGED notSessionVars

\* dialWebSocketWithECH(2) returns; on success the keep-alive goroutine starts
DialUpstream ==
    /\ hpc = "dial"
    /\ \E ok \in BOOLEAN :
        IF ok
        THEN /\ ws' = "open"
             /\ kpc' = "select"
             /\ hpc' = "connect"
             /\ UNCHANGED <<hret, clientOut>>
        ELSE /\ clientOut' = SendErrorResponse(clientOut, mode)
             /\ hret' = "dial"
             /\ hpc' = "returned"
             /\ UNCHANGED <<ws, kpc>>
    /\ UNCHANGED <<impl, mode, route, reply, cpc, spc, writers, mu, stopPing, connOpen,
                   doneClosed, doneBuf, wsOut, up, down>>
    /\ UNCHANGED notTunnelVars

\* the CONNECT message: WriteMessage is entered; proxyServer.go first clears the
\* deadline (conn.SetDeadline(time.Time{})) and, for SOCKS5, waits 100 ms for a
\* first frame under a read deadline it clears again
ConnectBegin ==
    /\ hpc = "connect"
    /\ EnterWrite("handler")
    /\ hpc' = "connecting"
    /\ UNCHANGED <<impl, mode, route, hret, reply, kpc, cpc, spc, ws, stopPing, connOpen,
                   doneClosed, doneBuf, clientOut, wsOut, up, down>>
    /\ deadline' = FALSE
    /\ UNCHANGED <<clientIn, wsIn, firstFail>>
    /\ UNCHANGED notSessionVars

\* ... and returns; an error is answered with SendErrorResponse
ConnectEnd ==
    /\ hpc = "connecting"
    /\ LeaveWrite("handler")
    /\ \E ok \in BOOLEAN :
        IF ok
        THEN /\ \E m \in Sent("handler", ConnectMessage) : wsOut' = Append(wsOut, m)
             /\ hpc' = "reply"
             /\ UNCHANGED <<hret, clientOut, stopPing, ws>>
        ELSE /\ clientOut' = SendErrorResponse(clientOut, mode)
             /\ ReturnAfterDial("write")
             /\ UNCHANGED wsOut
    /\ UNCHANGED <<impl, mode, route, reply, kpc, cpc, spc, connOpen, doneClosed, doneBuf,
                   up, down>>
    /\ UNCHANGED <<clientIn, wsIn, firstFail, deadline>>
    /\ UNCHANGED notSessionVars

\* ReadMessage for the reply, the verdict, the response to the client, and on
\* success the two forwarding goroutines
ReadReply ==
    /\ hpc = "reply"
    /\ \E r \in ReadResults, written \in BOOLEAN :
        /\ reply' = r
        /\ IF Verdict(r) # "connected"
           THEN /\ clientOut' = SendErrorResponse(clientOut, mode)
                /\ ReturnAfterDial(Verdict(r))
                /\ UNCHANGED <<cpc, spc>>
           ELSE /\ clientOut' = SendSuccessResponse(clientOut, mode)
                /\ IF mode # ModeHTTPProxy /\ ~written
                   THEN ReturnAfterDial("respond") /\ UNCHANGED <<cpc, spc>>
                   ELSE /\ cpc' = "read"
                        /\ spc' = "read"
                        /\ hpc' = "forward"
                        /\ UNCHANGED <<hret, stopPing, ws>>
    /\ UNCHANGED <<impl, mode, route, kpc, writers, mu, connOpen, doneClosed, doneBuf,
                   wsOut, up, down>>
    /\ UNCHANGED notTunnelVars

\* ProxyClient.wait: p.done <- struct{}{} blocks until a goroutine receives
WaitSend ==
    /\ impl = "client" /\ route = "tunnel"
    /\ hpc = "forward"
    /\ hpc' = "send"
    /\ UNCHANGED <<impl, mode, route, hret, reply, kpc, cpc, spc, writers, mu, ws, stopPing,
                   connOpen, doneClosed, doneBuf, clientOut, wsOut, up, down>>
    /\ UNCHANGED notTunnelVars

\* ProxyClient.wait after the send: close(p.done), p.wsConn.Close(), return
WaitClose ==
    /\ hpc = "closing"
    /\ doneClosed' = TRUE
    /\ stopPing' = TRUE
    /\ ws' = "closed"
    /\ hret' = "nil"
    /\ hpc' = "returned"
    /\ UNCHANGED <<impl, mode, route, reply, kpc, cpc, spc, writers, mu, connOpen, doneBuf,
                   clientOut, wsOut, up, down>>
    /\ UNCHANGED notTunnelVars

\* proxyServer.go handleTunnel: <-done, return
TunnelDone ==
    /\ impl = "server" /\ route = "tunnel"
    /\ hpc = "forward"
    /\ doneBuf > 0
    /\ doneBuf' = doneBuf - 1
    /\ ReturnAfterDial("nil")
    /\ UNCHANGED <<impl, mode, route, reply, kpc, cpc, spc, writers, mu, connOpen,
                   doneClosed, clientOut, wsOut, up, down>>
    /\ UNCHANGED notTunnelVars

\* handleConnection returns: defer conn.Close()
HandleConnectionReturn ==
    /\ hpc = "returned"
    /\ connOpen' = FALSE
    /\ hpc' = "closed"
    /\ UNCHANGED <<impl, mode, route, hret, reply, kpc, cpc, spc, writers, mu, ws, stopPing,
                   doneClosed, doneBuf, clientOut, wsOut, up, down>>
    /\ UNCHANGED notTunnelVars

\* KeepAlive: the ticker fires and the ping is being written
KeepAliveBeginPing ==
    /\ kpc = "select"
    /\ EnterWrite("keepalive")
    /\ kpc' = "pinging"
    /\ UNCHANGED <<impl, mode, route, hpc, hret, reply, cpc, spc, ws, stopPing, connOpen,
                   doneClosed, doneBuf, clientOut, wsOut, up, down>>
    /\ UNCHANGED <<clientIn, wsIn, firstFail, deadline>>
    /\ UNCHANGED notSessionVars

\* ... the ping is written or failed, its error dropped
KeepAliveEndPing ==
    /\ kpc = "pinging"
    /\ LeaveWrite("keepalive")
    /\ kpc' = "select"
    /\ UNCHANGED <<impl, mode, route, hpc, hret, reply, cpc, spc, ws, stopPing, connOpen,
                   doneClosed, doneBuf, clientOut, wsOut, up, down>>
    /\ UNCHANGED <<clientIn, wsIn, firstFail, deadline>>
    /\ UNCHANGED notSessionVars

\* KeepAlive: stopPing is closed, return
KeepAliveStop ==
    /\ kpc = "select"
    /\ stopPing
    /\ kpc' = "stopped"
    /\ UNCHANGED <<impl, mode, route, hpc, hret, reply, cpc, spc, writers, mu, ws, stopPing,
                   connOpen, doneClosed, doneBuf, clientOut, wsOut, up, down>>
    /\ UNCHANGED notTunnelVars

\* a forwarding goroutine of the tunnel ends. ProxyClient: the deferred
\* select { case <-p.done: default: } receives only if wait is blocked in its
\* send (or done is closed); proxyServer.go: done <- true
TaskExit ==
    IF impl = "client"
    THEN /\ hpc' = IF hpc = "send" THEN "closing" ELSE hpc
         /\ UNCHANGED doneBuf
    ELSE /\ doneBuf' = doneBuf + 1
         /\ UNCHANGED hpc

\* clientToServer: conn.Read returns a chunk or an error
C2SRead ==
    /\ cpc = "read"
    /\ \/ /\ connOpen /\ up < MaxUp
          /\ \E chunk \in Chunks : clientIn' = Append(clientIn, chunk)
          /\ up' = up + 1
          /\ cpc' = "data"
          /\ UNCHANGED firstFail
       \/ /\ cpc' = "eof"
          /\ firstFail' = FirstToFail("clientRead")
          /\ UNCHANGED <<clientIn, up>>
    /\ UNCHANGED <<impl, mode, route, hpc, hret, reply, kpc, spc, writers, mu, ws, stopPing,
                   connOpen, doneClosed, doneBuf, clientOut, wsOut, down>>
    /\ UNCHANGED <<wsIn, torn, deadline>>
    /\ UNCHANGED notSessionVars

\* clientToServer enters WriteMessage with the chunk, or with CLOSE after an error
C2SBeginWrite ==
    /\ cpc \in {"data", "eof"}
    /\ EnterWrite("c2s")
    /\ cpc' = IF cpc = "data" THEN "writingData" ELSE "writingClose"
    /\ UNCHANGED <<impl, mode, route, hpc, hret, reply, kpc, spc, ws, stopPing, connOpen,
                   doneClosed, doneBuf, clientOut, wsOut, up, down>>
    /\ UNCHANGED <<clientIn, wsIn, firstFail, deadline>>
    /\ UNCHANGED notSessionVars

\* ... WriteMessage returns: after a chunk that went out the loop goes on
C2SEndWrite ==
    /\ cpc \in {"writingData", "writingClose"}
    /\ LeaveWrite("c2s")
    /\ \E ok \in BOOLEAN :
        /\ ok => ws = "open"
        /\ IF ok
           THEN \E m \in Sent("c2s", IF cpc = "writingData"
                                    THEN Binary(clientIn[Len(clientIn)])
                                    ELSE Text(CLOSE)) :
                   wsOut' = Append(wsOut, m)
           ELSE UNCHANGED wsOut
        /\ firstFail' = IF ok \/ cpc = "writingClose" THEN firstFail
                        ELSE FirstToFail("upstream")
        /\ cpc' = AfterWrite(cpc, ok)
    /\ UNCHANGED <<impl, mode, route, hpc, hret, reply, kpc, spc, ws, stopPing, connOpen,
                   doneClosed, doneBuf, clientOut, up, down>>
    /\ UNCHANGED <<clientIn, wsIn, deadline>>
    /\ UNCHANGED notSessionVars

\* clientToServer returns
C2SExit ==
    /\ cpc = "exit"
    /\ TaskExit
    /\ cpc' = "gone"
    /\ UNCHANGED <<impl, mode, route, hret, reply, kpc, spc, writers, mu, ws, stopPing,
                   connOpen, doneClosed, clientOut, wsOut, up, down>>
    /\ UNCHANGED notTunnelVars

\* serverToClient: ReadMessage returns an error, the text CLOSE, or a message
S2CRead ==
    /\ spc = "read"
    /\ \/ /\ spc' = "exit"
          /\ firstFail' = FirstToFail("upstream")
          /\ UNCHANGED <<wsIn, down>>
       \/ /\ ws = "open"
          /\ \E m \in DownMessages :
               /\ ~IsClose(m) => down < MaxDown
               /\ wsIn' = Append(wsIn, m)
               /\ down' = IF IsClose(m) THEN down ELSE down + 1
               /\ spc' = IF IsClose(m) THEN "exit" ELSE "write"
               /\ firstFail' = IF IsClose(m) THEN FirstToFail("upstream") ELSE firstFail
    /\ UNCHANGED <<impl, mode, route, hpc, hret, reply, kpc, cpc, writers, mu, ws, stopPing,
                   connOpen, doneClosed, doneBuf, clientOut, wsOut, up>>
    /\ UNCHANGED <<clientIn, torn, deadline>>
    /\ UNCHANGED notSessionVars

\* serverToClient: conn.Write(msg)
S2CWrite ==
    /\ spc = "write"
    /\ \E ok \in BOOLEAN :
        /\ ok => connOpen
        /\ spc' = IF ok THEN "read" ELSE "exit"
        /\ firstFail' = IF ok THEN firstFail ELSE FirstToFail("clientWrite")
    /\ clientOut' = IF connOpen THEN Append(clientOut, Written(wsIn[Len(wsIn)].msg))
                     ELSE clientOut
    /\ UNCHANGED <<impl, mode, route, hpc, hret, reply, kpc, cpc, writers, mu, ws, stopPing,
                   connOpen, doneClosed, doneBuf, wsOut, up, down>>
    /\ UNCHANGED <<clientIn, wsIn, torn, deadline>>
    /\ UNCHANGED notSessionVars

\* serverToClient returns
S2CExit ==
    /\ spc = "exit"
    /\ TaskExit
    /\ spc' = "gone"
    /\ UNCHANGED <<impl, mode, route, hret, reply, kpc, cpc, writers, mu, ws, stopPing,
                   connOpen, doneClosed, clientOut, wsOut, up, down>>
    /\ UNCHANGED notTunnelVars

\* utils.HandleDirectConnection up to the two copying goroutines: the dial, the
\* response, the first frame (ModeHTTPProxy carries one)
DirectDial ==
    /\ hpc = "direct"
    /\ \E ok \in BOOLEAN, written \in BOOLEAN, framed \in BOOLEAN :
        IF ~ok
        THEN /\ clientOut' = SendErrorResponse(clientOut, mode)
             /\ hret' = "dial"
             /\ hpc' = "returned"
             /\ UNCHANGED <<cpc, spc>>
        ELSE /\ clientOut' = SendSuccessResponse(clientOut, mode)
             /\ IF mode # ModeHTTPProxy /\ ~written
                THEN hret' = "respond" /\ hpc' = "returned" /\ UNCHANGED <<cpc, spc>>
                ELSE IF mode = ModeHTTPProxy /\ ~framed
                THEN hret' = "frame" /\ hpc' = "returned" /\ UNCHANGED <<cpc, spc>>
                ELSE /\ cpc' = "copy"
                     /\ spc' = "copy"
                     /\ hpc' = "forward"
                     /\ UNCHANGED hret
    /\ UNCHANGED <<impl, mode, route, reply, kpc, writers, mu, ws, stopPing, connOpen,
                   doneClosed, doneBuf, wsOut, up, down>>
    /\ UNCHANGED notTunnelVars

\* io.Copy(targetConn, conn): a chunk goes to the target, or the copy ends: done <- true
DirectCopyUp ==
    /\ cpc = "copy"
    /\ \E more \in BOOLEAN :
        /\ more => connOpen /\ up < MaxUp
        /\ up' = IF more THEN up + 1 ELSE up
        /\ cpc' = IF more THEN "copy" ELSE "gone"
        /\ doneBuf' = IF more THEN doneBuf ELSE doneBuf + 1
    /\ UNCHANGED <<impl, mode, route, hpc, hret, reply, kpc, spc, writers, mu, ws, stopPing,
                   connOpen, doneClosed, clientOut, wsOut, down>>
    /\ UNCHANGED notTunnelVars

\* io.Copy(conn, targetConn): a chunk goes to the client, or the copy ends: done <- true
DirectCopyDown ==
    /\ spc = "copy"
    /\ \E more \in BOOLEAN :
        /\ more => connOpen /\ down < MaxDown
        /\ down' = IF more THEN down + 1 ELSE down
        /\ clientOut' = IF more THEN Append(clientOut, Payload) ELSE clientOut
        /\ spc' = IF more THEN "copy" ELSE "gone"
        /\ doneBuf' = IF more THEN doneBuf ELSE doneBuf + 1
    /\ UNCHANGED <<impl, mode, route, hpc, hret, reply, kpc, cpc, writers, mu, ws, stopPing,
                   connOpen, doneClosed, wsOut, up>>
    /\ UNCHANGED notTunnelVars

\* utils.HandleDirectConnection: <-done, return
DirectDone ==
    /\ route = "direct"
    /\ hpc = "forward"
    /\ doneBuf > 0
    /\ doneBuf' = doneBuf - 1
    /\ hret' = "nil"
    /\ hpc' = "returned"
    /\ UNCHANGED <<impl, mode, route, reply, kpc, cpc, spc, writers, mu, ws, stopPing,
                   connOpen, doneClosed, clientOut, wsOut, up, down>>
    /\ UNCHANGED notTunnelVars

InitTunnel ==
    /\ RangeIdle
    /\ DialIdle
    /\ ReloadIdle
    /\ impl \in {"client", "server"}
    /\ SessionIdle

NextTunnel ==
    \/ HandleTunnel
    \/ DialUpstream
    \/ ConnectBegin
    \/ ConnectEnd
    \/ ReadReply
    \/ WaitSend
    \/ WaitClose
    \/ TunnelDone
    \/ HandleConnectionReturn
    \/ KeepAliveBeginPing
    \/ KeepAliveEndPing
    \/ KeepAliveStop
    \/ C2SRead
    \/ C2SBeginWrite
    \/ C2SEndWrite
    \/ C2SExit
    \/ S2CRead
    \/ S2CWrite
    \/ S2CExit
    \/ DirectDial
    \/ DirectCopyUp
    \/ DirectCopyDown
    \/ DirectDone

SpecTunnel == InitTunnel /\ [][NextTunnel]_vars

\* every goroutine that can take a step of its own is scheduled; a goroutine
\* waiting for mu gets it; the keep-alive loop, whose ticker is ready once in
\* 10 s, sees a closed stopPing; the reads, which wait for the peer, are not forced
TunnelFairness ==
    /\ WF_vars(WaitSend)
    /\ WF_vars(WaitClose)
    /\ WF_vars(TunnelDone)
    /\ WF_vars(HandleConnectionReturn)
    /\ WF_vars(KeepAliveEndPing)
    /\ SF_vars(KeepAliveStop)
    /\ SF_vars(C2SBeginWrite)
    /\ WF_vars(C2SEndWrite)
    /\ WF_vars(C2SExit)
    /\ WF_vars(S2CWrite)
    /\ WF_vars(S2CExit)

SpecTunnelFair == SpecTunnel /\ TunnelFairness

\* C1: at most one goroutine is inside WriteMessage on the session's upstream
\* WebSocket at any time: the ping, the CONNECT message, a binary payload and
\* CLOSE exclude one another.
C1_OneWriterAtATime == Cardinality(writers) <= 1

\* C2: a tunnel session in mode SOCKS5 or HTTPConnect that read CONNECTED has
\* issued the success response of its mode on the client socket, once, as the
\* first write there: every other write is forwarded payload and comes after it.
C2_SuccessOnceBeforePayload ==
    (/\ route = "tunnel"
     /\ mode \in {ModeSOCKS5, ModeHTTPConnect}
     /\ reply.read /\ ~reply.err /\ reply.msg = CONNECTED) =>
        /\ Len(clientOut) >= 1
        /\ clientOut[1] = Synth(IF mode = ModeSOCKS5 THEN Socks5Success ELSE Http200)
        /\ \A i \in 2 .. Len(clientOut) : clientOut[i].k = "payload"

\* a SOCKS5 tunnel answered CONNECTED and a payload followed the success response
C2_Witness ==
    /\ route = "tunnel"
    /\ mode = ModeSOCKS5
    /\ reply.read /\ reply.msg = CONNECTED
    /\ clientOut = <<Synth(Socks5Success), Payload>>

\* C3: once forwarding has begun on a tunnel, if a forwarding goroutine has
\* exited then handleTunnel eventually returns and the upstream WebSocket and
\* the client socket are both closed.
C3_ExitLeadsToTeardown ==
    (route = "tunnel" /\ (cpc = "gone" \/ spc = "gone"))
        ~> (hpc = "closed" /\ ws = "closed" /\ ~connOpen)

\* C4: on a connection handed to handleTunnel, tunnel or direct, at most one
\* response is synthesized (a success or an error, not both, not twice), it
\* precedes every forwarded byte, and in HTTPProxy mode no success bytes are
\* ever written.
C4_AtMostOneResponseFirst ==
    route # "none" =>
        /\ \A i \in 1 .. Len(clientOut) : clientOut[i].k = "synth" => i = 1
        /\ mode = ModeHTTPProxy =>
              \A i \in 1 .. Len(clientOut) : clientOut[i].data \notin {Socks5Success, Http200}

\* a direct HTTP CONNECT: the 200 went out, then a payload
C4_Witness ==
    /\ route = "direct"
    /\ mode = ModeHTTPConnect
    /\ clientOut = <<Synth(Http200), Payload>>

\* C5: when the first message after CONNECT is not exactly CONNECTED, the client
\* gets the error response of its mode and nothing else, no forwarding goroutine
\* is started, and the session ends with the upstream WebSocket closed.
C5_RefusalEndsSession ==
    (/\ route = "tunnel"
     /\ reply.read /\ ~reply.err /\ reply.msg # CONNECTED
     /\ hpc \in {"returned", "closed"}) =>
        /\ clientOut = <<Synth(IF mode = ModeSOCKS5 THEN Socks5Failure ELSE Http502)>>
        /\ cpc = "none" /\ spc = "none"
        /\ ws = "closed"

\* ------------------------------------- a reload beside a lookup, step by step
Lines6 == [s : Addr6 \cup {NotIP}, e : Addr6 \cup {NotIP}]

RECURSIVE ParseLinesV6(_, _)
\* the scanner loop of LoadChinaIPV6List from line i on: the ranges appended
ParseLinesV6(data, i) ==
    IF i > Len(data) THEN <<>>
    ELSE LET line == data[i]
             rest == ParseLinesV6(data, i + 1)
         IN  IF line.s.fam = 0 \/ line.e.fam = 0 THEN rest
             ELSE IF CompareIPv6(line.s.b, line.e.b) <= 0
                  THEN <<[start |-> line.s.b, end |-> line.e.b]>> \o rest
                  ELSE rest

RECURSIVE SortByStartV6(_, _, _)
\* the two nested loops of LoadChinaIPV6List (i, j are 0-based)
SortByStartV6(r, i, j) ==
    IF i >= Len(r) - 1 THEN r
    ELSE IF j >= Len(r) THEN SortByStartV6(r, i + 1, i + 2)
    ELSE SortByStartV6(IF CompareIPv6(r[i + 1].start, r[j + 1].start) > 0
                       THEN Swap(r, i + 1, j + 1) ELSE r,
                       i, j + 1)

\* the table LoadChinaIPV6List stores for the file data (empty: it stores none)
LoadedRangesV6(data) == SortByStartV6(ParseLinesV6(data, 1), 0, 1)

\* The files reloaded here: their addresses end in the byte MaxByte, or do not parse.
ReloadIPs(A) == {ip \in A : ip.b[2] = MaxByte} \cup {NotIP}
ReloadFiles4 ==
    UNION {[1 .. k -> [s : ReloadIPs(Addr4), e : ReloadIPs(Addr4)]] : k \in 0 .. MaxLines}
ReloadFiles6 ==
    UNION {[1 .. k -> [s : ReloadIPs(Addr6), e : ReloadIPs(Addr6)]] : k \in 0 .. MaxLines}

\* the hosts looked up here: the addresses of such files, the IPv4 address 0,
\* and what does not parse
ReloadLookups ==
    ReloadIPs(Addr4) \cup ReloadIPs(Addr6) \cup {ip \in Addr4 : IpToUint32(ip) = 0}

\* the table an earlier load stored, when the file had its first line only
FirstLine(data) == IF Len(data) = 0 THEN <<>> ELSE <<data[1]>>

\* A loader whose table comes from an earlier load, and a newer file to load.
InitReload ==
    /\ DialIdle
    /\ TunnelIdle
    /\ LoaderIdle
    /\ routingMode = BypassCN
    /\ \/ /\ data4 \in ReloadFiles4
          /\ chinaIPRanges = LoadedRanges(FirstLine(data4))
          /\ data6 = <<>>
          /\ chinaIPV6Ranges = <<>>
       \/ /\ data6 \in ReloadFiles6
          /\ chinaIPV6Ranges = LoadedRangesV6(FirstLine(data6))
          /\ data4 = <<>>
          /\ chinaIPRanges = <<>>
    /\ loadErr = "none"
    /\ query = NoQuery
    /\ answer = FALSE

\* LoadChinaIPList (f = 4) / LoadChinaIPV6List (f = 6) up to the lock: Sync, the
\* scanner loop, the scanner's error, the empty check, the sort of the local slice
LoadBegin ==
    /\ ldpc = "idle"
    /\ \E f \in {4, 6}, syncOK \in BOOLEAN, scanOK \in BOOLEAN :
        LET sorted == IF f = 4 THEN LoadedRanges(data4) ELSE LoadedRangesV6(data6)
        IN  IF ~syncOK \/ ~scanOK \/ Len(sorted) = 0
            THEN /\ loadErr' = IF ~syncOK THEN "sync"
                               ELSE IF ~scanOK THEN "read"
                               ELSE IF f = 4 THEN "empty" ELSE "nil"
                 /\ UNCHANGED <<ldpc, lfam, lranges>>
            ELSE /\ loadErr' = "none"
                 /\ ldpc' = "lock"
                 /\ lfam' = f
                 /\ lranges' = sorted
    /\ UNCHANGED <<routingMode, chinaIPRanges, chinaIPV6Ranges, data4, query, answer>>
    /\ UNCHANGED <<data6, mutex, rpc, rip>>
    /\ UNCHANGED startup
    /\ UNCHANGED notLoaderVars

\* chinaIPRangesMu.Lock() / chinaIPV6RangesMu.Lock()
LoadLock ==
    /\ ldpc = "lock"
    /\ mutex[lfam] = "free"
    /\ mutex' = [mutex EXCEPT ![lfam] = "write"]
    /\ ldpc' = "store"
    /\ UNCHANGED rangeVars
    /\ UNCHANGED <<data6, lfam, lranges, rpc, rip>>
    /\ UNCHANGED startup
    /\ UNCHANGED notLoaderVars

\* i.chinaIPRanges = ranges / i.chinaIPV6Ranges = ranges
LoadStore ==
    /\ ldpc = "store"
    /\ IF lfam = 4
       THEN chinaIPRanges' = lranges /\ UNCHANGED chinaIPV6Ranges
       ELSE chinaIPV6Ranges' = lranges /\ UNCHANGED chinaIPRanges
    /\ ldpc' = "unlock"
    /\ UNCHANGED <<routingMode, data4, loadErr, query, answer>>
    /\ UNCHANGED <<data6, lfam, lranges, mutex, rpc, rip>>
    /\ UNCHANGED startup
    /\ UNCHANGED notLoaderVars

\* Unlock(); return nil
LoadUnlock ==
    /\ ldpc = "unlock"
    /\ mutex' = [mutex EXCEPT ![lfam] = "free"]
    /\ loadErr' = "nil"
    /\ ldpc' = "idle"
    /\ lfam' = 0
    /\ lranges' = <<>>
    /\ UNCHANGED <<routingMode, chinaIPRanges, chinaIPV6Ranges, data4, query, answer>>
    /\ UNCHANGED <<data6, rpc, rip>>
    /\ UNCHANGED startup
    /\ UNCHANGED notLoaderVars

\* IsChinaIP up to RLock(): what does not parse, and the IPv4 address 0, return
\* false before it
LookupRLock ==
    /\ rpc = "idle"
    /\ \E ip \in ReloadLookups :
        IF ip.fam = 0 \/ (ip.fam = 4 /\ IpToUint32(ip) = 0)
        THEN /\ answer' = FALSE
             /\ UNCHANGED <<mutex, rpc, rip>>
        ELSE /\ mutex[ip.fam] = "free"
             /\ mutex' = [mutex EXCEPT ![ip.fam] = "read"]
             /\ rpc' = "locked"
             /\ rip' = ip
             /\ UNCHANGED answer
    /\ UNCHANGED <<routingMode, chinaIPRanges, chinaIPV6Ranges, data4, loadErr, query>>
    /\ UNCHANGED <<data6, ldpc, lfam, lranges>>
    /\ UNCHANGED startup
    /\ UNCHANGED notLoaderVars

\* the binary search on the live table, the deferred RUnlock(), return
LookupSearch ==
    /\ rpc = "locked"
    /\ answer' = IsChinaIPIn(chinaIPRanges, chinaIPV6Ranges, rip)
    /\ mutex' = [mutex EXCEPT ![rip.fam] = "free"]
    /\ rpc' = "idle"
    /\ rip' = NotIP
    /\ UNCHANGED <<routingMode, chinaIPRanges, chinaIPV6Ranges, data4, loadErr, query>>
    /\ UNCHANGED <<data6, ldpc, lfam, lranges>>
    /\ UNCHANGED startup
    /\ UNCHANGED notLoaderVars

NextReload ==
    \/ LoadBegin
    \/ LoadLock
    \/ LoadStore
    \/ LoadUnlock
    \/ LookupRLock
    \/ LookupSearch

SpecReload == InitReload /\ [][NextReload]_vars

\* C11: while a lookup reads the live IPv4 or IPv6 table, the table is sorted
\* ascending by start, each of its ranges has start <= end, and it is a whole
\* table: the one of the previous load or the one the reload stores.
C11_LookupReadsSortedWholeTable ==
    rpc = "locked" =>
        IF rip.fam = 4
        THEN /\ SortedByStart4(chinaIPRanges)
             /\ \A i \in 1 .. Len(chinaIPRanges) :
                   chinaIPRanges[i].start <= chinaIPRanges[i].end
             /\ chinaIPRanges \in {LoadedRanges(FirstLine(data4)), LoadedRanges(data4)}
        ELSE /\ SortedByStart6(chinaIPV6Ranges)
             /\ \A i \in 1 .. Len(chinaIPV6Ranges) :
                   ValueOf(chinaIPV6Ranges[i].start) <= ValueOf(chinaIPV6Ranges[i].end)
             /\ chinaIPV6Ranges \in {LoadedRangesV6(FirstLine(data6)), LoadedRangesV6(data6)}

\* a lookup holds the read lock on a table just replaced by a reload, whose
\* file had its ranges in descending order
C11_Witness ==
    /\ rpc = "locked" /\ rip.fam = 4
    /\ loadErr = "nil"
    /\ Len(chinaIPRanges) = 2
    /\ chinaIPRanges # ParseLines(data4, 1)
    /\ chinaIPRanges # LoadedRanges(FirstLine(data4))

\* --------------------------------------------- the text of a range file
\* A line is a sequence of pieces: the decimal text of a byte, ".", " " or "#".
\* net.IP.String of an address with a 4-byte form
FormatIP(ip) == <<ToString(ip.b[1]), ".", ToString(ip.b[2])>>

\* the data line "startIP endIP"
EncodeLine(s, e) == FormatIP(s) \o <<" ">> \o FormatIP(e)

RECURSIVE FieldsFrom(_, _, _)
\* strings.Fields(line) from piece i on, cur being the field begun
FieldsFrom(line, i, cur) ==
    IF i > Len(line) THEN (IF Len(cur) = 0 THEN <<>> ELSE <<cur>>)
    ELSE IF line[i] = " "
         THEN (IF Len(cur) = 0 THEN <<>> ELSE <<cur>>) \o FieldsFrom(line, i + 1, <<>>)
         ELSE FieldsFrom(line, i + 1, Append(cur, line[i]))

\* the value of the decimal text of a byte, -1 for any other piece
DecimalByte(t) ==
    IF \E n \in Bytes : ToString(n) = t THEN CHOOSE n \in Bytes : ToString(n) = t ELSE -1

\* net.ParseIP(field) on dotted decimal text
ParseIP(field) ==
    IF /\ Len(field) = 3
       /\ field[2] = "."
       /\ DecimalByte(field[1]) >= 0
       /\ DecimalByte(field[3]) >= 0
    THEN [fam |-> 4, b |-> <<DecimalByte(field[1]), DecimalByte(field[3])>>]
    ELSE NotIP

\* one turn of the scanner loop up to the two net.ParseIP calls: a blank line, a
\* comment and a line of fewer than two fields are passed over
ScanLine(line) ==
    LET parts == FieldsFrom(line, 1, <<>>)
    IN  IF Len(parts) = 0 \/ parts[1][1] = "#" \/ Len(parts) < 2
        THEN [s |-> NotIP, e |-> NotIP]
        ELSE [s |-> ParseIP(parts[1]), e |-> ParseIP(parts[2])]

ScanFile(text) == [i \in 1 .. Len(text) |-> ScanLine(text[i])]

\* The files whose only data line is "startIP endIP": the line alone, after a
\* comment, before a blank line, or indented.
Layouts == {"alone", "comment", "blank", "indented"}
RangeFile(s, e, layout) ==
    CASE layout = "alone" -> <<EncodeLine(s, e)>>
      [] layout = "comment" -> <<<<"#", " ", "1">>, EncodeLine(s, e)>>
      [] layout = "blank" -> <<EncodeLine(s, e), <<" ">>>>
      [] layout = "indented" -> <<<<" ">> \o EncodeLine(s, e) \o <<" ">>>>

\* NewIPLoader, and a data source holding the text of one well-formed range
InitRoundTrip ==
    /\ DialIdle
    /\ TunnelIdle
    /\ ReloadIdle
    /\ routingMode = BypassCN
    /\ chinaIPRanges = <<>>
    /\ chinaIPV6Ranges = <<>>
    /\ \E s \in Addr4, e \in Addr4, layout \in Layouts :
          /\ IpToUint32(s) <= IpToUint32(e)
          /\ data4 = ScanFile(RangeFile(s, e, layout))
    /\ loadErr = "none"
    /\ query = NoQuery
    /\ answer = FALSE

SpecRoundTrip == InitRoundTrip /\ [][NextLoad]_vars

\* C12: for every well-formed range (start, end) with start <= end, loading a file
\* whose only data line is "startIP endIP" yields a table holding exactly that
\* range; and a table holding the single range [a, a] answers yes for a and no
\* for every other address.
C12_RoundTrip ==
    \A s \in Addr4, e \in Addr4 :
        (/\ IpToUint32(s) <= IpToUint32(e)
         /\ \E layout \in Layouts : data4 = ScanFile(RangeFile(s, e, layout)))
        => /\ loadErr \in {"nil", "empty"}
                => chinaIPRanges = <<[start |-> IpToUint32(s), end |-> IpToUint32(e)]>>
           /\ (s = e /\ loadErr \in {"nil", "empty"} /\ query.op = "IsChinaIP")
                => (answer = (query.ip = s))

\* ------------------------------------------- ProxyServer.Run: the startup load
\* How FileSync.Sync ends: with the data ("ok"), or at os.Executable ("exe"), at
\* os.Stat with an error other than not-exist ("stat"), at the download
\* ("source"), at os.WriteFile ("write") or at os.ReadFile ("readfile").
SyncResults == {"ok", "exe", "stat", "source", "write", "readfile"}

\* how LoadChinaIPList ends: "ok" when it stored a table, else where it failed
LoadResult4(sync, scanOK, data) ==
    IF sync # "ok" THEN sync
    ELSE IF ~scanOK THEN "scan"
    ELSE IF Len(ParseLines(data, 1)) = 0 THEN "empty"
    ELSE "ok"

\* how LoadChinaIPV6List ends; its download function returns (nil, nil) when the
\* download fails, which Sync saves and returns as an empty file
LoadResult6(sync, scanOK, data) ==
    IF sync \in {"exe", "stat", "write", "readfile", "source"} THEN sync
    ELSE IF ~scanOK THEN "scan"
    ELSE IF Len(ParseLinesV6(data, 1)) = 0 THEN "empty"
    ELSE "ok"

\* info.Size() on the nil FileInfo of a failed os.Stat: a nil dereference
Panics(r) == r = "stat"
\* LoadChinaIPList returns an error / LoadChinaIPV6List returns an error
ReturnsError4(r) == r \in {"exe", "source", "write", "readfile", "scan", "empty"}
ReturnsError6(r) == r \in {"exe", "write", "readfile", "scan"}

\* the files at startup: at most one line
StartupFiles(A) == {<<>>} \cup {<<l>> : l \in [s : ReloadIPs(A), e : ReloadIPs(A)]}

\* NewIPLoader(routingMode), before Run
InitStartup ==
    /\ DialIdle
    /\ TunnelIdle
    /\ LoaderIdle
    /\ routingMode \in RoutingModes
    /\ chinaIPRanges = <<>>
    /\ chinaIPV6Ranges = <<>>
    /\ data4 \in StartupFiles(Addr4)
    /\ data6 \in StartupFiles(Addr6)
    /\ loadErr = "none"
    /\ query = NoQuery
    /\ answer = FALSE

\* IPLoader.LoadWithRoutingMode, called by Run; a panic ends the process
LoadWithRoutingMode ==
    /\ startup.pc = "idle"
    /\ \/ /\ routingMode = BypassCN
          /\ \E s4 \in SyncResults, s6 \in SyncResults, scan4 \in BOOLEAN, scan6 \in BOOLEAN :
               LET r4 == LoadResult4(s4, scan4, data4)
                   r6 == LoadResult6(s6, scan6, data6)
                   t4 == IF r4 = "ok" THEN LoadedRanges(data4) ELSE chinaIPRanges
                   t6 == IF r6 = "ok" THEN LoadedRangesV6(data6) ELSE chinaIPV6Ranges
                   ipv4Count == IF ReturnsError4(r4) THEN 0 ELSE Len(t4)
                   ipv6Count == IF ReturnsError6(r6) THEN 0 ELSE Len(t6)
                   warn4 == IF ReturnsError4(r4) THEN <<"warn4">> ELSE <<>>
                   warn6 == IF ReturnsError6(r6) THEN <<"warn6">> ELSE <<>>
                   last == IF ipv4Count > 0 \/ ipv6Count > 0
                           THEN <<"loaded">> ELSE <<"warnNothing">>
               IN  IF Panics(r4)
                   THEN /\ startup' = [pc |-> "panic", r4 |-> r4, r6 |-> "none",
                                       log |-> <<"start">>]
                        /\ UNCHANGED <<chinaIPRanges, chinaIPV6Ranges, loadErr>>
                   ELSE /\ chinaIPRanges' = t4
                        /\ loadErr' = IF r4 = "ok" THEN "nil" ELSE r4
                        /\ IF Panics(r6)
                           THEN /\ startup' = [pc |-> "panic", r4 |-> r4, r6 |-> r6,
                                               log |-> <<"start">> \o warn4]
                                /\ UNCHANGED chinaIPV6Ranges
                           ELSE /\ startup' = [pc |-> "running", r4 |-> r4, r6 |-> r6,
                                               log |-> <<"start">> \o warn4 \o warn6 \o last]
                                /\ chinaIPV6Ranges' = t6
          /\ UNCHANGED routingMode
       \/ /\ routingMode \in {Global, None}
          /\ startup' = [startup EXCEPT !.pc = "running", !.log = <<routingMode>>]
          /\ UNCHANGED <<routingMode, chinaIPRanges, chinaIPV6Ranges, loadErr>>
       \/ /\ routingMode \notin {BypassCN, Global, None}
          /\ startup' = [startup EXCEPT !.pc = "running", !.log = <<"warnMode">>]
          /\ routingMode' = Global
          /\ UNCHANGED <<chinaIPRanges, chinaIPV6Ranges, loadErr>>
    /\ query' = [op |-> "LoadWithRoutingMode"]
    /\ UNCHANGED <<data4, answer>>
    /\ UNCHANGED <<data6, ldpc, lfam, lranges, mutex, rpc, rip>>
    /\ UNCHANGED notLoaderVars

\* the hosts routed after startup: an address, or a name with at most one address
StartupHosts == {host \in Hosts : Len(host.res.ips) <= 1}

\* a routing decision of the running server: IPLoader.ShouldBypassProxy(targetHost)
Serve ==
    /\ startup.pc = "running"
    /\ \E host \in StartupHosts :
        /\ query' = [op |-> "ShouldBypassProxy", host |-> host]
        /\ answer' = ShouldBypassProxyIn(routingMode, chinaIPRanges, chinaIPV6Ranges, host)
    /\ UNCHANGED <<routingMode, chinaIPRanges, chinaIPV6Ranges, data4, loadErr>>
    /\ UNCHANGED notRangeVars

NextStartup ==
    \/ LoadWithRoutingMode
    \/ Serve

SpecStartup == InitStartup /\ [][NextStartup]_vars

\* a warning of the startup load is in the log
Warned == \E i \in 1 .. Len(startup.log) : startup.log[i] \in {"warn4", "warn6", "warnNothing"}

\* C13: a failure while loading the country list (data source or file access
\* error, read error, no valid range) leaves the live table unchanged, is reported
\* as a warning, and the server goes on to start; and with the tables still empty
\* ShouldBypassProxy in bypass_cn mode returns false for every host.
C13_LoadFailureOnlyWarns ==
    /\ startup.r4 \notin {"none", "ok"}
          => chinaIPRanges = <<>> /\ Warned /\ startup.pc = "running"
    /\ startup.r6 \notin {"none", "ok"}
          => chinaIPV6Ranges = <<>> /\ Warned /\ startup.pc = "running"
    /\ (/\ startup.pc = "running" /\ routingMode = BypassCN
        /\ chinaIPRanges = <<>> /\ chinaIPV6Ranges = <<>>
        /\ query.op = "ShouldBypassProxy")
          => answer = FALSE

C15_CloseBeforeTeardown ==
    (firstFail \in {"clientRead", "clientWrite"} /\ ws = "closed")
        => \E i \in 1 .. Len(wsOut) : wsOut[i] = Text(CLOSE)

\* the messages read from the relay after the handshake that are not the text CLOSE
Forwarded == SelectSeq(wsIn, LAMBDA m : ~(m.mt = "text" /\ m.msg = CLOSE))
\* the writes of relay payloads issued on the client socket
DownPayloads == SelectSeq(clientOut, LAMBDA w : w.k = "payload")

\* C16: in serverToClient a text message that is exactly CLOSE ends the task and
\* is not written to the client; every other message received after the
\* handshake, binary or text (CONNECTED and the like included), is written as
\* it came to the client socket.
C16_CloseEndsOthersVerbatim ==
    route = "tunnel" =>
        /\ \A i \in 1 .. Len(wsIn) :
              wsIn[i] = Text(CLOSE) => (i = Len(wsIn) /\ spc \in {"exit", "gone"})
        /\ Len(DownPayloads) <= Len(Forwarded)
        /\ \A i \in 1 .. Len(DownPayloads) : DownPayloads[i].data = Forwarded[i].msg
        /\ Len(DownPayloads) < Len(Forwarded) =>
              /\ Len(DownPayloads) = Len(Forwarded) - 1
              /\ spc = "write" \/ ~connOpen

\* a binary message spelling CLOSE was written to the client, then the text
\* CLOSE ended the task
C16_Witness ==
    /\ wsIn = <<Binary(CLOSE), Text(CLOSE)>>
    /\ DownPayloads = <<Written(CLOSE)>>
    /\ spc = "gone"

\* the session on the connection has ended: handleTunnel has returned
SessionEnded == hpc \in {"returned", "closed"}

\* C17: for every upstream WebSocket that was dialed, once the session has ended
\* (after forwarding, or because the CONNECT handshake failed) the WebSocket is
\* closed and the keep-alive task eventually terminates, and no ping is written
\* to it after the session has ended.
C17_KeepAliveEndsWithSession ==
    /\ []((SessionEnded /\ ws # "none") => ws = "closed")
    /\ ((SessionEnded /\ kpc # "none") ~> kpc = "stopped")
    /\ [][(kpc = "select" /\ kpc' = "pinging") => ~(SessionEnded /\ ws = "open")]_vars

\* C18: in every session that reaches bidirectional forwarding, on the tunnel
\* path and on the direct path, the deadline put on the client socket at accept
\* has been cleared: the socket has no pending deadline while bytes are forwarded.
C18_NoDeadlineWhileForwarding ==
    hpc = "forward" => ~deadline

\* the binary messages the relay received, in order
UpPayloads == SelectSeq(wsOut, LAMBDA m : m.mt = "binary")

\* C19: in each direction of an established tunnel order is kept and nothing is
\* duplicated: the binary payloads written upstream are, in order, a prefix of
\* the chunks read from the client socket after the handshake, and what is
\* written to the client after the handshake is, in arrival order, the payloads
\* of the forwarded relay messages.
C19_OrderKeptBothWays ==
    route = "tunnel" =>
        /\ Len(UpPayloads) <= Len(clientIn)
        /\ \A i \in 1 .. Len(UpPayloads) : UpPayloads[i].msg = clientIn[i]
        /\ Len(DownPayloads) <= Len(Forwarded)
        /\ \A i \in 1 .. Len(DownPayloads) : DownPayloads[i].data = Forwarded[i].msg

\* ------------------------------------------- handleConnection: the dispatcher
\* The bytes a client may send first: 0x05, the seven letters of the switch,
\* and bytes of no protocol (0x00, 0x04, 'X', 'c', 0xC8); then a second byte
\* (a SOCKS5 method count of 0, or 'O').
HTTPFirstBytes == {67, 71, 80, 72, 68, 79, 84}
FirstBytes == {5} \cup HTTPFirstBytes \cup {0, 4, 88, 99, 200}
SecondBytes == {0, 79}
Streams ==
    {<<>>} \cup {<<b>> : b \in FirstBytes}
           \cup {<<b, c>> : b \in FirstBytes, c \in SecondBytes}

\* the switch of handleConnection taking 0x04 (SOCKS4) for SOCKS5 as well
FrontEndWithSocks4(b) ==
    IF b \in {4, 5} THEN "socks5" ELSE IF b \in HTTPFirstBytes THEN "http" ELSE "unknown"

\* the switch of handleConnection on the first byte
FrontEnd(b) ==
    IF b = 5 THEN "socks5"
    ELSE IF b \in {67, 71, 80, 72, 68, 79, 84} THEN "http"
    ELSE "unknown"

\* what handleHTTP puts in front of the connection: ProxyClient wraps
\* []byte{firstByte}; proxyServer.go wraps string(firstByte), the UTF-8 text of
\* the code point firstByte
Prepended(b) ==
    IF impl = "client" \/ b < 128 THEN <<b>>
    ELSE <<192 + (b \div 64), 128 + (b % 64)>>

\* the method-selection reply of handleSOCKS5: version 5, no authentication
MethodReply == <<5, 0>>

\* listener.Accept() has returned a connection; the client will send stream
InitDispatch ==
    /\ RangeIdle
    /\ DialIdle
    /\ ReloadIdle
    /\ impl \in {"client", "server"}
    /\ mode = 0
    /\ route = "none"
    /\ hpc = "idle"
    /\ hret = "none"
    /\ reply = NoReply
    /\ kpc = "none"
    /\ cpc = "none"
    /\ spc = "none"
    /\ writers = {}
    /\ mu = "free"
    /\ ws = "none"
    /\ stopPing = FALSE
    /\ connOpen = TRUE
    /\ doneClosed = FALSE
    /\ doneBuf = 0
    /\ clientOut = <<>>
    /\ wsOut = <<>>
    /\ up = 0
    /\ down = 0
    /\ clientIn = <<>>
    /\ wsIn = <<>>
    /\ firstFail = "none"
    /\ torn = {}
    /\ deadline = FALSE
    /\ FrontIdle
    /\ \E st \in Streams :
          dispatch = [pc |-> "accepted", stream |-> st, pos |-> 0, first |-> 0,
                      to |-> "none", seen |-> <<>>]

\* the first read: conn.Read(buf) of one byte. On an error or n = 0
\* proxyServer.go returns; ProxyClient.ReadFirstByte returns 0, which the
\* switch then takes as the first byte
ReadFirstByte ==
    /\ dispatch.pc = "accepted"
    /\ \E ok \in BOOLEAN :
        /\ ok => Len(dispatch.stream) >= 1
        /\ IF ok
           THEN dispatch' = [dispatch EXCEPT !.pc = "switch", !.pos = 1,
                                              !.first = dispatch.stream[1]]
           ELSE dispatch' = [dispatch EXCEPT
                                !.pc = IF impl = "server" THEN "return" ELSE "switch",
                                !.first = 0]
    /\ deadline' = (impl = "server")
    /\ UNCHANGED tunnelVars
    /\ UNCHANGED <<clientIn, wsIn, firstFail, torn>>
    /\ UNCHANGED <<rangeVars, dialVars, reloadVars, auxVars, frontVars>>

\* switch firstByte: handleSOCKS5, handleHTTP, or the log line of the default
Classify ==
    /\ dispatch.pc = "switch"
    /\ dispatch' = [dispatch EXCEPT
                      !.pc = IF FrontEnd(dispatch.first) = "unknown" THEN "return"
                             ELSE FrontEnd(dispatch.first),
                      !.to = FrontEnd(dispatch.first),
                      !.seen = IF FrontEnd(dispatch.first) = "http"
                               THEN Prepended(dispatch.first) ELSE <<>>]
    /\ UNCHANGED tunnelVars
    /\ UNCHANGED flowVars
    /\ UNCHANGED <<rangeVars, dialVars, reloadVars, auxVars, frontVars>>

\* the front-end reads on: handleHTTP through its reader, after the byte put
\* back; handleSOCKS5 the method count from the connection. A failed read
\* ends the front-end.
FrontEndRead ==
    /\ dispatch.pc \in {"http", "socks5"}
    /\ dispatch.pos = 1
    /\ \E ok \in BOOLEAN :
        /\ ok => dispatch.pos < Len(dispatch.stream)
        /\ IF ok
           THEN dispatch' = [dispatch EXCEPT
                                !.pos = dispatch.pos + 1,
                                !.seen = Append(dispatch.seen,
                                                dispatch.stream[dispatch.pos + 1])]
           ELSE dispatch' = [dispatch EXCEPT !.pc = "return"]
    /\ UNCHANGED tunnelVars
    /\ UNCHANGED flowVars
    /\ UNCHANGED <<rangeVars, dialVars, reloadVars, auxVars, frontVars>>

\* handleSOCKS5 with a method count of 0 has no methods to read and writes the
\* method-selection reply; the next read ends the front-end in this model
SOCKS5Reply ==
    /\ dispatch.pc = "socks5"
    /\ dispatch.pos = 2
    /\ dispatch.seen = <<0>>
    /\ clientOut' = Append(clientOut, MethodReply)
    /\ dispatch' = [dispatch EXCEPT !.pc = "return"]
    /\ UNCHANGED <<impl, mode, route, hpc, hret, reply, kpc, cpc, spc, writers, mu, ws,
                   stopPing, connOpen, doneClosed, doneBuf, wsOut, up, down>>
    /\ UNCHANGED flowVars
    /\ UNCHANGED <<rangeVars, dialVars, reloadVars, auxVars, frontVars>>

\* the front-end's further reads find the end of the stream
FrontEndEOF ==
    /\ dispatch.pc \in {"http", "socks5"}
    /\ dispatch.pos = 2
    /\ dispatch.pc = "socks5" => dispatch.seen # <<0>>
    /\ dispatch' = [dispatch EXCEPT !.pc = "return"]
    /\ UNCHANGED tunnelVars
    /\ UNCHANGED flowVars
    /\ UNCHANGED <<rangeVars, dialVars, reloadVars, auxVars, frontVars>>

\* handleConnection returns: defer conn.Close()
DispatchReturn ==
    /\ dispatch.pc = "return"
    /\ dispatch' = [dispatch EXCEPT !.pc = "closed"]
    /\ connOpen' = FALSE
    /\ UNCHANGED <<impl, mode, route, hpc, hret, reply, kpc, cpc, spc, writers, mu, ws,
                   stopPing, doneClosed, doneBuf, clientOut, wsOut, up, down>>
    /\ UNCHANGED flowVars
    /\ UNCHANGED <<rangeVars, dialVars, reloadVars, auxVars, frontVars>>

NextDispatch ==
    \/ ReadFirstByte
    \/ Classify
    \/ FrontEndRead
    \/ SOCKS5Reply
    \/ FrontEndEOF
    \/ DispatchReturn

SpecDispatch == InitDispatch /\ [][NextDispatch]_vars

\* the first read gave a byte
FirstByteRead == dispatch.pos >= 1

\* the dispatcher has chosen, or has returned without choosing
Dispatched == dispatch.pc \notin {"none", "accepted", "switch"}

\* C20: the dispatcher classifies a connection by its first byte only: 0x05 goes
\* to the SOCKS5 front-end; 'C', 'G', 'P', 'H', 'D', 'O', 'T' go to the HTTP
\* front-end, whose parser sees that byte as the first byte of the request line;
\* for any other first byte, or when the first read fails, the connection is
\* closed and no byte is written to the client.
C20_FirstByteDispatch ==
    Dispatched =>
        IF FirstByteRead /\ dispatch.stream[1] = 5
        THEN dispatch.to = "socks5"
        ELSE IF FirstByteRead /\ dispatch.stream[1] \in HTTPFirstBytes
        THEN /\ dispatch.to = "http"
             /\ dispatch.seen = SubSeq(dispatch.stream, 1, dispatch.pos)
        ELSE /\ dispatch.to \in {"none", "unknown"}
             /\ dispatch.pc \in {"return", "closed"}
             /\ dispatch.pc = "closed" => ~connOpen
             /\ dispatch.seen = <<>>
             /\ clientOut = <<>>

\* a connection whose first byte is a letter of the HTTP switch has had its
\* second byte parsed, another whose first byte is 'X' has been closed
C20_Witness ==
    /\ Dispatched
    /\ \/ /\ dispatch.to = "http"
          /\ Len(dispatch.seen) = 2
       \/ /\ dispatch.pc = "closed"
          /\ FirstByteRead
          /\ dispatch.stream[1] = 88

\* ----------------------------------------------------- texts of the front-ends
\* A text is a sequence of pieces; a number is printed in decimal by ToString.
HexChars == <<"0", "1", "2", "3", "4", "5", "6", "7", "8", "9", "a", "b", "c", "d", "e", "f">>

RECURSIVE Hex(_)
\* the lower-case hexadecimal text of n, without leading zeros
Hex(n) == IF n < 16 THEN <<HexChars[n + 1]>> ELSE Hex(n \div 16) \o <<HexChars[(n % 16) + 1]>>

\* net.IP(buf).String() for the 4 bytes of ATYP 0x01
Dotted(b) == <<ToString(b[1]), ".", ToString(b[2]), ".", ToString(b[3]), ".", ToString(b[4])>>

\* the eight 16-bit groups of a 16-byte address
Groups(b) == [i \in 1 .. 8 |-> b[2 * i - 1] * 256 + b[2 * i]]

RECURSIVE ZeroRun(_, _)
\* the number of zero groups from group i on
ZeroRun(g, i) == IF i > 8 \/ g[i] # 0 THEN 0 ELSE 1 + ZeroRun(g, i + 1)

\* where the longest run of at least two zero groups starts (the first of the
\* longest), 0 when there is none
LongestZeroRun(g) ==
    IF \A i \in 1 .. 8 : ZeroRun(g, i) < 2 THEN 0
    ELSE CHOOSE i \in 1 .. 8 :
            /\ \A j \in 1 .. 8 : ZeroRun(g, j) <= ZeroRun(g, i)
            /\ \A j \in 1 .. i - 1 : ZeroRun(g, j) < ZeroRun(g, i)

RECURSIVE GroupsText(_, _, _)
\* the groups from i to last, in hexadecimal with ":" between them
GroupsText(g, i, last) ==
    IF i > last THEN <<>>
    ELSE Hex(g[i]) \o (IF i < last THEN <<":">> ELSE <<>>) \o GroupsText(g, i + 1, last)

\* net.IP(buf).String() for the 16 bytes of ATYP 0x04: dotted decimal for an
\* IPv4-mapped address, else the compressed hexadecimal form
IPv6Text(b) ==
    IF (\A i \in 1 .. 10 : b[i] = 0) /\ b[11] = 255 /\ b[12] = 255
    THEN Dotted(SubSeq(b, 13, 16))
    ELSE LET g == Groups(b)
             z == LongestZeroRun(g)
         IN  IF z = 0 THEN GroupsText(g, 1, 8)
             ELSE GroupsText(g, 1, z - 1) \o <<"::">>
                    \o GroupsText(g, z + ZeroRun(g, z), 8)

\* string(domainBuf): the characters of the domain bytes
Chr(b) ==
    CASE b = 97 -> "a" [] b = 46 -> "." [] b = 67 -> "C" [] b = 71 -> "G"
      [] b = 80 -> "P" [] b = 72 -> "H" [] b = 68 -> "D" [] b = 79 -> "O"
      [] b = 84 -> "T" [] OTHER -> "?"
DomainText(b) == [i \in 1 .. Len(b) |-> Chr(b[i])]

\* int(buf[0])<<8 | int(buf[1])
PortOf(b) == b[1] * 256 + b[2]

\* fmt.Sprintf("%s:%d", host, port) with the brackets ATYP 0x01 would need
ComposeBracketed(atyp, host, port) ==
    IF atyp \in {1, 4}
    THEN <<"[">> \o host \o <<"]", ":", ToString(port)>>
    ELSE host \o <<":", ToString(port)>>

\* the target of a SOCKS5 CONNECT: "[host]:port" for ATYP 0x04, else "host:port"
Compose(atyp, host, port) ==
    IF atyp = 4
    THEN <<"[">> \o host \o <<"]", ":", ToString(port)>>
    ELSE host \o <<":", ToString(port)>>

\* the connect request: Connenct of utils/websocket.go puts "base64:" before
\* the first frame in SOCKS5 mode; handleTunnel of proxyServer.go never does
ConnectText(target, firstFrame, m) ==
    IF impl = "client" /\ m = ModeSOCKS5
    THEN <<"CONNECT:">> \o target \o <<"|", "base64:">> \o firstFrame
    ELSE <<"CONNECT:">> \o target \o <<"|">> \o firstFrame

\* ------------------------------------------------------ the SOCKS5 front-end
\* What a SOCKS5 client sends after the byte 0x05: the method count and the
\* methods, then VER CMD RSV ATYP, the address and the port.
Greetings == {<<0>>, <<1, 0>>}
V6Example == <<38, 6, 40, 0, 2, 32, 0, 1, 2, 72, 24, 147, 37, 200, 25, 70>>
V6Mapped == <<0, 0, 0, 0, 0, 0, 0, 0, 0, 0, 255, 255, 1, 2, 3, 4>>
V6Loopback == <<0, 0, 0, 0, 0, 0, 0, 0, 0, 0, 0, 0, 0, 0, 0, 1>>
AddressParts ==
    {<<1, 93, 184, 216, 34>>, <<3, 3, 97, 46, 97>>, <<9>>,
     <<4>> \o V6Example, <<4>> \o V6Mapped, <<4>> \o V6Loopback}
PortParts == {<<1, 187>>, <<0, 80>>}
Socks5Requests ==
    {<<ver, cmd, 0>> \o a \o p :
        ver \in {4, 5}, cmd \in {1, 2, 3}, a \in AddressParts, p \in PortParts}
Socks5Streams == {<<5>> \o g \o r : g \in Greetings, r \in Socks5Requests}

\* a stream and every stream cut short
Prefixes(S) == UNION {{SubSeq(st, 1, n) : n \in 0 .. Len(st)} : st \in S}

\* the front-end before its first read
FrontStart ==
    [pc |-> "start", lines |-> <<>>, body |-> <<>>, cmd |-> 0, atyp |-> 0, host |-> <<>>,
     port |-> 0, req |-> [ok |-> FALSE], target |-> <<>>, mode |-> 0, firstFrame |-> <<>>,
     calls |-> <<>>]

\* a connection just accepted: nothing written, no session begun
ConnIdle ==
    /\ mode = 0
    /\ route = "none"
    /\ hpc = "idle"
    /\ hret = "none"
    /\ reply = NoReply
    /\ kpc = "none"
    /\ cpc = "none"
    /\ spc = "none"
    /\ writers = {}
    /\ mu = "free"
    /\ ws = "none"
    /\ stopPing = FALSE
    /\ connOpen = TRUE
    /\ doneClosed = FALSE
    /\ doneBuf = 0
    /\ clientOut = <<>>
    /\ wsOut = <<>>
    /\ up = 0
    /\ down = 0
    /\ clientIn = <<>>
    /\ wsIn = <<>>
    /\ firstFail = "none"
    /\ torn = {}
    /\ deadline = FALSE

\* io.ReadFull(conn, buf) of n bytes succeeds when n more bytes arrive
CanRead(n) == dispatch.pos + n <= Len(dispatch.stream)
\* the bytes it reads
ReadBytes(n) == SubSeq(dispatch.stream, dispatch.pos + 1, dispatch.pos + n)

\* the replies of handleSOCKS5
MethodSelection == <<5, 0>>
ReplyAtyp == <<5, 8, 0, 1, 0, 0, 0, 0, 0, 0>>
ReplyCommand == <<5, 7, 0, 1, 0, 0, 0, 0, 0, 0>>

\* the front-end returns to handleConnection
FrontReturn(f) ==
    /\ front' = [f EXCEPT !.pc = "done"]
    /\ dispatch' = [dispatch EXCEPT !.pc = "return"]

frontFrame ==
    <<impl, mode, route, hpc, hret, reply, kpc, cpc, spc, writers, mu, ws, stopPing,
      connOpen, doneClosed, doneBuf, wsOut, up, down>>

\* handleSOCKS5: the method count and the methods are read, 05 00 is written
S5Greeting ==
    /\ dispatch.pc = "socks5"
    /\ front.pc = "start"
    /\ IF ~CanRead(1) \/ ~CanRead(1 + ReadBytes(1)[1])
       THEN /\ FrontReturn(front)
            /\ UNCHANGED clientOut
       ELSE \E ok \in BOOLEAN :
                 IF ok
                 THEN /\ clientOut' = Append(clientOut, MethodSelection)
                      /\ front' = [front EXCEPT !.pc = "request"]
                      /\ dispatch' = [dispatch EXCEPT !.pos = @ + 1 + ReadBytes(1)[1]]
                 ELSE /\ FrontReturn(front)
                      /\ UNCHANGED clientOut
    /\ UNCHANGED frontFrame
    /\ UNCHANGED <<rangeVars, dialVars, reloadVars, auxVars, flowVars, direct, udp, srv>>

\* a front-end that goes on whatever the version of the request
RejectsNoVersion(ver) == FALSE

\* if buf[0] != 5 { return }
RejectsVersion(ver) == ver # 5

\* VER CMD RSV ATYP are read; a version other than 5 ends the front-end
S5Request ==
    /\ dispatch.pc = "socks5"
    /\ front.pc = "request"
    /\ IF ~CanRead(4) \/ RejectsVersion(ReadBytes(4)[1])
       THEN FrontReturn(front)
       ELSE /\ front' = [front EXCEPT !.pc = "address", !.cmd = ReadBytes(4)[2],
                                      !.atyp = ReadBytes(4)[4]]
            /\ dispatch' = [dispatch EXCEPT !.pos = @ + 4]
    /\ UNCHANGED <<frontFrame, clientOut>>
    /\ UNCHANGED <<rangeVars, dialVars, reloadVars, auxVars, flowVars, direct, udp, srv>>

\* switch atyp: the address is read and printed; an unknown type is answered
\* with REP 0x08
S5Address ==
    /\ dispatch.pc = "socks5"
    /\ front.pc = "address"
    /\ CASE front.atyp = 1 ->
              /\ IF ~CanRead(4) THEN FrontReturn(front)
                 ELSE /\ front' = [front EXCEPT !.pc = "port", !.host = Dotted(ReadBytes(4))]
                      /\ dispatch' = [dispatch EXCEPT !.pos = @ + 4]
              /\ UNCHANGED clientOut
         [] front.atyp = 3 ->
              /\ IF ~CanRead(1) \/ ~CanRead(1 + ReadBytes(1)[1]) THEN FrontReturn(front)
                 ELSE LET n == ReadBytes(1)[1]
                      IN  /\ front' = [front EXCEPT
                                         !.pc = "port",
                                         !.host = DomainText(SubSeq(ReadBytes(1 + n), 2, 1 + n))]
                          /\ dispatch' = [dispatch EXCEPT !.pos = @ + 1 + n]
              /\ UNCHANGED clientOut
         [] front.atyp = 4 ->
              /\ IF ~CanRead(16) THEN FrontReturn(front)
                 ELSE /\ front' = [front EXCEPT !.pc = "port", !.host = IPv6Text(ReadBytes(16))]
                      /\ dispatch' = [dispatch EXCEPT !.pos = @ + 16]
              /\ UNCHANGED clientOut
         [] OTHER ->
              /\ clientOut' = Append(clientOut, ReplyAtyp)
              /\ FrontReturn(front)
    /\ UNCHANGED frontFrame
    /\ UNCHANGED <<rangeVars, dialVars, reloadVars, auxVars, flowVars, direct, udp, srv>>

\* the two port bytes are read
S5Port ==
    /\ dispatch.pc = "socks5"
    /\ front.pc = "port"
    /\ IF ~CanRead(2) THEN FrontReturn(front)
       ELSE /\ front' = [front EXCEPT !.pc = "command", !.port = PortOf(ReadBytes(2))]
            /\ dispatch' = [dispatch EXCEPT !.pos = @ + 2]
    /\ UNCHANGED <<frontFrame, clientOut>>
    /\ UNCHANGED <<rangeVars, dialVars, reloadVars, auxVars, flowVars, direct, udp, srv>>

\* switch command: CONNECT calls handleTunnel(target, ModeSOCKS5, ""), UDP
\* ASSOCIATE calls handleUDPAssociate, any other is answered with REP 0x07
S5Command ==
    /\ dispatch.pc = "socks5"
    /\ front.pc = "command"
    /\ CASE front.cmd = 1 ->
              /\ front' = [front EXCEPT !.pc = "tunnel", !.mode = ModeSOCKS5,
                                         !.target = Compose(front.atyp, front.host, front.port)]
              /\ UNCHANGED <<dispatch, clientOut>>
         [] front.cmd = 3 ->
              /\ front' = [front EXCEPT !.pc = "udp"]
              /\ UNCHANGED <<dispatch, clientOut>>
         [] OTHER ->
              /\ clientOut' = Append(clientOut, ReplyCommand)
              /\ FrontReturn(front)
    /\ UNCHANGED frontFrame
    /\ UNCHANGED <<rangeVars, dialVars, reloadVars, auxVars, flowVars, direct, udp, srv>>

\* handleUDPAssociate runs and returns
FrontUDP ==
    /\ front.pc = "udp"
    /\ FrontReturn([front EXCEPT !.calls = Append(@, "handleUDPAssociate")])
    /\ UNCHANGED <<frontFrame, clientOut>>
    /\ UNCHANGED <<rangeVars, dialVars, reloadVars, auxVars, flowVars, direct, udp, srv>>

\* what proxyServer.go may read from a SOCKS5 client in the 100 ms before the
\* connect request
EarlyData == {<<>>, <<"x">>}

\* handleTunnel up to the connect request: the routing lookup, then the direct
\* dial, or the upstream dial and, when it succeeds, the connect request
FrontHandleTunnel ==
    /\ front.pc = "tunnel"
    /\ \E r \in {"direct", "tunnel"}, dialed \in BOOLEAN, early \in EarlyData :
         /\ (r = "direct" \/ ~dialed \/ impl = "client" \/ front.mode # ModeSOCKS5
               \/ front.firstFrame # <<>>) => early = <<>>
         /\ r = "direct" => dialed
         /\ LET ff == IF early # <<>> THEN early ELSE front.firstFrame
            IN  /\ FrontReturn([front EXCEPT
                      !.firstFrame = ff,
                      !.calls = @ \o <<"ShouldBypassProxy">> \o
                                (IF r = "direct" THEN <<"HandleDirectConnection">>
                                 ELSE <<"dialWebSocketWithECH">>)])
                /\ wsOut' = IF r = "tunnel" /\ dialed
                            THEN Append(wsOut, Text(ConnectText(front.target, ff, front.mode)))
                            ELSE wsOut
    /\ UNCHANGED <<impl, mode, route, hpc, hret, reply, kpc, cpc, spc, writers, mu, ws,
                   stopPing, connOpen, doneClosed, doneBuf, clientOut, up, down>>
    /\ UNCHANGED <<rangeVars, dialVars, reloadVars, auxVars, flowVars, direct, udp, srv>>

\* the accepted connections of a SOCKS5 client, and of a client of no protocol
InitSocks5 ==
    /\ RangeIdle
    /\ DialIdle
    /\ ReloadIdle
    /\ ConnIdle
    /\ impl \in {"client", "server"}
    /\ direct = NoDirect
    /\ udp = NoUDP
    /\ srv = NoServer
    /\ front = FrontStart
    /\ \E st \in Prefixes(Socks5Streams) \cup {<<0>>, <<88>>} :
          dispatch = [pc |-> "accepted", stream |-> st, pos |-> 0, first |-> 0,
                      to |-> "none", seen |-> <<>>]

NextSocks5 ==
    \/ ReadFirstByte
    \/ Classify
    \/ S5Greeting
    \/ S5Request
    \/ S5Address
    \/ S5Port
    \/ S5Command
    \/ FrontUDP
    \/ FrontHandleTunnel
    \/ DispatchReturn

SpecSocks5 == InitSocks5 /\ [][NextSocks5]_vars

\* the request of the stream: VER, CMD and ATYP as the client sent them, and
\* whether the stream holds the request up to its port
GreetingLen == 2 + dispatch.stream[2]
GreetingAnswered ==
    /\ dispatch.to = "socks5"
    /\ Len(dispatch.stream) >= 2
    /\ dispatch.pos >= GreetingLen
HeaderSent == Len(dispatch.stream) >= GreetingLen + 4
SentVER == dispatch.stream[GreetingLen + 1]
SentCMD == dispatch.stream[GreetingLen + 2]
SentATYP == dispatch.stream[GreetingLen + 4]
AddressLen ==
    CASE SentATYP = 1 -> 4
      [] SentATYP = 4 -> 16
      [] SentATYP = 3 /\ Len(dispatch.stream) >= GreetingLen + 5 ->
            1 + dispatch.stream[GreetingLen + 5]
      [] OTHER -> 0
WholeRequestSent == Len(dispatch.stream) >= GreetingLen + 4 + AddressLen + 2

\* C22: in the SOCKS5 front-end, after the greeting is answered with 05 00, a
\* request whose VER is not 0x05 is rejected with no further bytes written; an
\* ATYP outside {1, 3, 4} gets the reply with REP 0x08; a CMD other than CONNECT
\* (1) or UDP ASSOCIATE (3) gets the reply with REP 0x07; in all three cases no
\* upstream dial, direct dial or routing lookup is made.
C22_Socks5Rejections ==
    (dispatch.pc = "closed" /\ GreetingAnswered /\ HeaderSent) =>
        /\ SentVER # 5 =>
              /\ clientOut = <<(<<5, 0>>)>>
              /\ front.calls = <<>>
        /\ (SentVER = 5 /\ SentATYP \notin {1, 3, 4}) =>
              /\ clientOut = <<(<<5, 0>>), (<<5, 8, 0, 1, 0, 0, 0, 0, 0, 0>>)>>
              /\ front.calls = <<>>
        /\ (SentVER = 5 /\ SentATYP \in {1, 3, 4} /\ SentCMD \notin {1, 3}
              /\ WholeRequestSent) =>
              /\ clientOut = <<(<<5, 0>>), (<<5, 7, 0, 1, 0, 0, 0, 0, 0, 0>>)>>
              /\ front.calls = <<>>

\* a BIND request (CMD 2) to an IPv4 address has been answered with REP 0x07
\* and the connection closed
C22_Witness ==
    /\ dispatch.pc = "closed"
    /\ GreetingAnswered
    /\ HeaderSent
    /\ SentVER = 5
    /\ SentATYP = 1
    /\ SentCMD = 2
    /\ Len(clientOut) = 2
    /\ clientOut[2][2] = 7

\* a CONNECT request went to the relay with no first-frame bytes
ConnectSentBare ==
    /\ GreetingAnswered
    /\ front.pc = "done"
    /\ front.mode = ModeSOCKS5
    /\ front.firstFrame = <<>>
    /\ Len(wsOut) = 1

\* the port the client sent, big-endian, and the target the claim composes
SentPort ==
    dispatch.stream[GreetingLen + 4 + AddressLen + 1] * 256
        + dispatch.stream[GreetingLen + 4 + AddressLen + 2]
ClaimedTarget ==
    IF SentATYP = 4
    THEN <<"[">> \o front.host \o <<"]", ":", ToString(SentPort)>>
    ELSE front.host \o <<":", ToString(SentPort)>>
ExampleV4 == <<"93", ".", "184", ".", "216", ".", "34">>
ExampleV6 ==
    <<"2", "6", "0", "6", ":", "2", "8", "0", "0", ":", "2", "2", "0", ":", "1", ":",
      "2", "4", "8", ":", "1", "8", "9", "3", ":", "2", "5", "c", "8", ":",
      "1", "9", "4", "6">>
HostsAsClaimed ==
    /\ SentATYP = 1 => front.host = ExampleV4
    /\ SentATYP = 3 => front.host = <<"a", ".", "a">>
    /\ (SentATYP = 4 /\ dispatch.stream[GreetingLen + 5] = 38) => front.host = ExampleV6

SP == " "
CRLF == "\r\n"
HTTP11 == <<"HTTP/1.1">>
MethodRests ==
    {<<71, "ET">>, <<80, "OST">>, <<80, "ROPFIND">>, <<67, "ONNECT">>}
URLs ==
    {<<"http://", "example.com", "/", "index.html">>,
     <<"http://", "example.com", ":", "8080", "/">>,
     <<"http://", "example.com">>,
     <<"http://", "[", ":", ":", "1", "]", "/">>,
     <<"/", "index.html">>}
Authority == <<"example.com", ":", "443">>
HeaderChoices ==
    {<<"Host", ":", SP, "example.com">>,
     <<"Host", ":", SP, "example.com", ":", "8080">>,
     <<"Host", ":", SP, "[", ":", ":", "1", "]">>,
     <<"Proxy-Connection", ":", SP, "keep-alive">>,
     <<"User-Agent", ":", SP, "curl">>,
     <<"Content-Length", ":", SP, "1">>,
     <<"X-A", ":", SP, "1">>,
     <<"Accept", ":", SP, "x">>}

\* strings.ToLower on a header key
LowerPiece(t) ==
    CASE t = "Host" -> "host"
      [] t = "Proxy-Connection" -> "proxy-connection"
      [] t = "Proxy-Authorization" -> "proxy-authorization"
      [] t = "User-Agent" -> "user-agent"
      [] t = "Content-Length" -> "content-length"
      [] t = "X-A" -> "x-a"
      [] t = "Accept" -> "accept"
      [] OTHER -> t
ToLower(text) == [i \in 1 .. Len(text) |-> LowerPiece(text[i])]

\* strings.Index(text, piece), counted from 1; 0 when the piece is absent
IndexOf(text, piece) ==
    IF \E i \in 1 .. Len(text) : text[i] = piece
    THEN CHOOSE i \in 1 .. Len(text) :
            text[i] = piece /\ \A j \in 1 .. i - 1 : text[j] # piece
    ELSE 0

\* strings.Contains(text, piece)
Contains(text, piece) == IndexOf(text, piece) > 0

RECURSIVE TrimSpace(_)
\* strings.TrimSpace
TrimSpace(text) ==
    IF text = <<>> THEN <<>>
    ELSE IF text[1] = SP THEN TrimSpace(Tail(text))
    ELSE IF text[Len(text)] = SP THEN TrimSpace(SubSeq(text, 1, Len(text) - 1))
    ELSE text

\* the key and the value of a header line, as handleHTTP cuts them at the
\* first colon
HeaderKey(line) ==
    IF IndexOf(line, ":") > 1
    THEN ToLower(TrimSpace(SubSeq(line, 1, IndexOf(line, ":") - 1)))
    ELSE <<>>
HeaderValue(line) == TrimSpace(SubSeq(line, IndexOf(line, ":") + 1, Len(line)))

\* headers[key] of proxyServer.go: the value of the last line with that key
LastValue(headerLines, key) ==
    IF \E i \in 1 .. Len(headerLines) : HeaderKey(headerLines[i]) = key
    THEN HeaderValue(headerLines[CHOOSE i \in 1 .. Len(headerLines) :
            /\ HeaderKey(headerLines[i]) = key
            /\ \A j \in i + 1 .. Len(headerLines) : HeaderKey(headerLines[j]) # key])
    ELSE <<>>

\* req.Header.Get(key) of net/http: the value of the first line with that key
FirstValue(headerLines, key) ==
    IF \E i \in 1 .. Len(headerLines) : HeaderKey(headerLines[i]) = key
    THEN HeaderValue(headerLines[CHOOSE i \in 1 .. Len(headerLines) :
            /\ HeaderKey(headerLines[i]) = key
            /\ \A j \in 1 .. i - 1 : HeaderKey(headerLines[j]) # key])
    ELSE <<>>

\* the lines before the blank line, the request line left out
HeaderLinesOf(lines) == SubSeq(lines, 2, IndexOf(lines, <<>>) - 1)

\* fmt.Sscanf(contentLength, "%d", &length)
Sscanf(value) ==
    IF value # <<>> /\ \E n \in 0 .. 9 : ToString(n) = value[1]
    THEN CHOOSE n \in 0 .. 9 : ToString(n) = value[1]
    ELSE 0

CONNECTMethod == <<"C", "ONNECT">>
SupportedMethods ==
    {<<"G", "ET">>, <<"P", "OST">>, <<"P", "UT">>, <<"D", "ELETE">>, <<"H", "EAD">>,
     <<"O", "PTIONS">>, <<"P", "ATCH">>, <<"T", "RACE">>}
NoRequest == [ok |-> FALSE]

\* the request line the parser sees: the byte put back, then the first line
RequestLine(first, lines) ==
    [i \in 1 .. Len(Prepended(first)) |-> Chr(Prepended(first)[i])] \o lines[1]

\* handleHTTP taking the end of the stream for the end of the headers
ParseServerToEOF(first, lines) ==
    IF lines = <<>> THEN NoRequest
    ELSE LET parts == FieldsFrom(RequestLine(first, lines), 1, <<>>)
         IN  IF Len(parts) < 3 THEN NoRequest
             ELSE [ok |-> TRUE, method |-> parts[1], url |-> parts[2],
                   version |-> parts[3], headerLines |-> HeaderLinesOf(lines),
                   host |-> LastValue(HeaderLinesOf(lines), <<"host">>)]

\* proxyServer.go handleHTTP up to its switch: the request line of at least
\* three fields, then the header lines up to the blank line
ParseServer(first, lines) ==
    IF lines = <<>> THEN NoRequest
    ELSE LET parts == FieldsFrom(RequestLine(first, lines), 1, <<>>)
         IN  IF Len(parts) < 3 \/ IndexOf(lines, <<>>) = 0 THEN NoRequest
             ELSE [ok |-> TRUE, method |-> parts[1], url |-> parts[2],
                   version |-> parts[3], headerLines |-> HeaderLinesOf(lines),
                   host |-> LastValue(HeaderLinesOf(lines), <<"host">>)]

\* the authority of an absolute URI: what stands between "http://" and the
\* first "/" after it
AuthorityOf(url) ==
    IF IndexOf(Tail(url), "/") = 0 THEN Tail(url)
    ELSE SubSeq(Tail(url), 1, IndexOf(Tail(url), "/") - 1)

\* http.ReadRequest as ProxyClient uses it: three fields, an HTTP version, a
\* request target net/url accepts, well-formed header lines; req.Host is the
\* authority of the URI, else the first Host header
ParseClient(first, lines) ==
    IF lines = <<>> THEN NoRequest
    ELSE LET parts == FieldsFrom(RequestLine(first, lines), 1, <<>>)
             hl == HeaderLinesOf(lines)
         IN  IF \/ Len(parts) # 3
                \/ IndexOf(lines, <<>>) = 0
                \/ parts[3] # HTTP11
                \/ (parts[1] # CONNECTMethod /\ parts[2][1] \notin {"http://", "/"})
                \/ \E i \in 1 .. Len(hl) : IndexOf(hl[i], ":") <= 1
             THEN NoRequest
             ELSE [ok |-> TRUE, method |-> parts[1], url |-> parts[2],
                   version |-> parts[3], headerLines |-> hl,
                   host |-> IF parts[1] = CONNECTMethod THEN parts[2]
                            ELSE IF parts[2][1] = "http://" /\ AuthorityOf(parts[2]) # <<>>
                                 THEN AuthorityOf(parts[2])
                                 ELSE FirstValue(hl, <<"host">>)]

\* the target and the path proxyServer.go derives for a forwarded request
ServerTarget(req) ==
    IF req.url[1] = "http://"
    THEN IF IndexOf(Tail(req.url), "/") > 1
         THEN SubSeq(Tail(req.url), 1, IndexOf(Tail(req.url), "/") - 1)
         ELSE Tail(req.url)
    ELSE req.host
ServerPath(req) ==
    IF req.url[1] = "http://"
    THEN IF IndexOf(Tail(req.url), "/") > 1
         THEN SubSeq(Tail(req.url), IndexOf(Tail(req.url), "/"), Len(req.url) - 1)
         ELSE <<"/">>
    ELSE req.url

\* r.URL.RequestURI() of net/http: the path of the URI, "/" when it has none
RequestURI(url) ==
    IF url[1] = "http://"
    THEN IF IndexOf(Tail(url), "/") = 0 THEN <<"/">>
         ELSE SubSeq(Tail(url), IndexOf(Tail(url), "/"), Len(url) - 1)
    ELSE url

\* the default port added to every target, an IPv6 literal included
WithDefaultPortAlways(target) ==
    IF target[Len(target)] = "]" \/ ~Contains(target, ":")
    THEN target \o <<":", "80">> ELSE target

\* if !strings.Contains(target, ":") { target += ":80" }
WithDefaultPort(target) ==
    IF ~Contains(target, ":") THEN target \o <<":", "80">> ELSE target

RECURSIVE JoinLines(_)
\* each line followed by CRLF
JoinLines(ls) == IF ls = <<>> THEN <<>> ELSE ls[1] \o <<CRLF>> \o JoinLines(Tail(ls))

\* a header line is kept unless its key is one of the dropped keys
KeyOfLine(line) ==
    ToLower(TrimSpace(IF Contains(line, ":") THEN SubSeq(line, 1, IndexOf(line, ":") - 1)
                      ELSE line))
RECURSIVE Without(_, _)
Without(ls, keys) ==
    IF ls = <<>> THEN <<>>
    ELSE (IF KeyOfLine(ls[1]) \in keys THEN <<>> ELSE <<ls[1]>>) \o Without(Tail(ls), keys)
RECURSIVE Only(_, _)
Only(ls, key) ==
    IF ls = <<>> THEN <<>>
    ELSE (IF KeyOfLine(ls[1]) = key THEN <<ls[1]>> ELSE <<>>) \o Only(Tail(ls), key)

\* the first frame of proxyServer.go: the request line with the path, the
\* header lines but Proxy-Connection and Proxy-Authorization, the blank line,
\* and the body when Content-Length bytes of it could be read
ServerFrame(req, body) ==
    LET n == Sscanf(LastValue(req.headerLines, <<"content-length">>))
    IN  req.method \o <<SP>> \o ServerPath(req) \o <<SP>> \o req.version \o <<CRLF>>
          \o JoinLines(Without(req.headerLines,
                               {<<"proxy-connection">>, <<"proxy-authorization">>}))
          \o <<CRLF>>
          \o (IF n > 0 /\ Len(body) >= n THEN SubSeq(body, 1, n) ELSE <<>>)

\* the Content-Length net/http settles on, and whether req.Write sends it
ClientLength(req) == Sscanf(FirstValue(req.headerLines, <<"content-length">>))
\* req.Write fails when the body holds fewer bytes than Content-Length
ClientWriteFails(req, body) == Len(body) < ClientLength(req)

\* the first frame of ProxyClient, written by req.Write after the headers
\* proxy-connection, proxy-authorization and user-agent are deleted: the
\* request line, Host, the User-Agent of net/http, Content-Length when there
\* is a body or the method is POST, the other headers sorted by key
ClientFrame(req, body) ==
    LET n == ClientLength(req)
        rest == Only(req.headerLines, <<"accept">>) \o Only(req.headerLines, <<"x-a">>)
    IN  req.method \o <<SP>> \o RequestURI(req.url) \o <<SP>> \o HTTP11 \o <<CRLF>>
          \o <<"Host", ":", SP>> \o req.host \o <<CRLF>>
          \o <<"User-Agent", ":", SP, "Go-http-client/1.1", CRLF>>
          \o (IF n > 0 \/ req.method = <<"P", "OST">>
              THEN <<"Content-Length", ":", SP, ToString(n), CRLF>> ELSE <<>>)
          \o JoinLines(rest)
          \o <<CRLF>>
          \o SubSeq(body, 1, n)

Http400 == <<"HTTP/1.1 400 Bad Request", CRLF, CRLF>>
Http405 == <<"HTTP/1.1 405 Method Not Allowed", CRLF, CRLF>>

\* the requests of an HTTP client: a request line, up to two header lines, the
\* blank line or the end of the stream before it, the body bytes that arrive
HeaderSeqs ==
    {<<>>} \cup {<<h>> : h \in HeaderChoices}
           \cup {<<g, h>> : g \in HeaderChoices, h \in HeaderChoices}
TargetsOf(m) == IF m[2] = "ONNECT" THEN {Authority} ELSE URLs
HTTPRequests ==
    UNION {{[first |-> m[1],
             lines |-> <<(<<m[2], SP>> \o u \o <<SP>> \o HTTP11)>> \o hs \o end,
             body |-> b] :
              u \in TargetsOf(m), hs \in HeaderSeqs, end \in {<<>>, <<(<<>>)>>},
              b \in {<<>>, <<"b">>}} : m \in MethodRests}
        \cup {[first |-> 71, lines |-> <<(<<"ET">>), (<<>>)>>, body |-> <<>>]}

\* handleHTTP sets the front-end's call of handleTunnel
CallTunnel(target, m, firstFrame) ==
    /\ front' = [front EXCEPT !.pc = "tunnel", !.target = target, !.mode = m,
                               !.firstFrame = firstFrame]
    /\ UNCHANGED <<dispatch, clientOut>>

\* handleHTTP writes a response and returns
Respond(text) ==
    /\ clientOut' = Append(clientOut, text)
    /\ FrontReturn(front)

\* handleHTTP up to its switch: the request line and the headers are read
HTTPRead ==
    /\ dispatch.pc = "http"
    /\ front.pc = "start"
    /\ LET req == IF impl = "client" THEN ParseClient(dispatch.first, front.lines)
                  ELSE ParseServer(dispatch.first, front.lines)
       IN  IF req.ok
           THEN /\ front' = [front EXCEPT !.pc = "switch", !.req = req]
                /\ UNCHANGED dispatch
           ELSE FrontReturn(front)
    /\ UNCHANGED <<frontFrame, clientOut>>
    /\ UNCHANGED <<rangeVars, dialVars, reloadVars, auxVars, flowVars, direct, udp, srv>>

\* ProxyClient.handleHTTP after http.ReadRequest
SwitchClient(req) ==
    IF req.host = <<>> THEN Respond(Http400)
    ELSE IF req.method = CONNECTMethod THEN CallTunnel(req.url, ModeHTTPConnect, <<>>)
    ELSE IF req.method \in SupportedMethods
         THEN IF ClientWriteFails(req, front.body)
              THEN FrontReturn(front) /\ UNCHANGED clientOut
              ELSE CallTunnel(WithDefaultPort(req.host), ModeHTTPProxy,
                              ClientFrame(req, front.body))
    ELSE Respond(Http405)

\* handleHTTP of proxyServer.go forwarding a request whatever its method
SwitchServerAnyMethod(req) ==
    IF req.method = CONNECTMethod THEN CallTunnel(req.url, ModeHTTPConnect, <<>>)
    ELSE IF ServerTarget(req) = <<>> THEN Respond(Http400)
    ELSE CallTunnel(WithDefaultPort(ServerTarget(req)), ModeHTTPProxy,
                    ServerFrame(req, front.body))

\* handleHTTP of proxyServer.go after the headers
SwitchServer(req) ==
    IF req.method = CONNECTMethod THEN CallTunnel(req.url, ModeHTTPConnect, <<>>)
    ELSE IF req.method \in SupportedMethods
         THEN IF ServerTarget(req) = <<>> THEN Respond(Http400)
              ELSE CallTunnel(WithDefaultPort(ServerTarget(req)), ModeHTTPProxy,
                              ServerFrame(req, front.body))
    ELSE Respond(Http405)

\* switch method
HTTPSwitch ==
    /\ dispatch.pc = "http"
    /\ front.pc = "switch"
    /\ IF impl = "client" THEN SwitchClient(front.req) ELSE SwitchServer(front.req)
    /\ UNCHANGED frontFrame
    /\ UNCHANGED <<rangeVars, dialVars, reloadVars, auxVars, flowVars, direct, udp, srv>>

\* the accepted connections of an HTTP client
InitHTTP ==
    /\ RangeIdle
    /\ DialIdle
    /\ ReloadIdle
    /\ ConnIdle
    /\ impl \in {"client", "server"}
    /\ direct = NoDirect
    /\ udp = NoUDP
    /\ srv = NoServer
    /\ \E r \in HTTPRequests :
        /\ front = [FrontStart EXCEPT !.lines = r.lines, !.body = r.body]
        /\ dispatch = [pc |-> "accepted", stream |-> <<r.first>>, pos |-> 0, first |-> 0,
                       to |-> "none", seen |-> <<>>]

NextHTTP ==
    \/ ReadFirstByte
    \/ Classify
    \/ HTTPRead
    \/ HTTPSwitch
    \/ FrontHandleTunnel
    \/ DispatchReturn

SpecHTTP == InitHTTP /\ [][NextHTTP]_vars

\* the request as the client sent it: its method and target, whether it came
\* whole (three fields and the blank line), whether it names a host
SentLine == <<Chr(dispatch.stream[1])>> \o front.lines[1]
SentWhole ==
    /\ dispatch.to = "http"
    /\ Len(FieldsFrom(SentLine, 1, <<>>)) = 3
    /\ \E i \in 2 .. Len(front.lines) : front.lines[i] = <<>>
SentMethod == FieldsFrom(SentLine, 1, <<>>)[1]
SentURL == FieldsFrom(SentLine, 1, <<>>)[2]
SentHeaders == SubSeq(front.lines, 2, IndexOf(front.lines, <<>>) - 1)
SentHostHeader == \E i \in 1 .. Len(SentHeaders) : SentHeaders[i][1] = "Host"
SentAbsolute == SentURL[1] = "http://"
ClaimedMethods ==
    {CONNECTMethod, <<"G", "ET">>, <<"P", "OST">>, <<"P", "UT">>, <<"D", "ELETE">>,
     <<"H", "EAD">>, <<"O", "PTIONS">>, <<"P", "ATCH">>, <<"T", "RACE">>}
Answered400 == clientOut = <<(<<"HTTP/1.1 400 Bad Request", "\r\n", "\r\n">>)>>
Answered405 == clientOut = <<(<<"HTTP/1.1 405 Method Not Allowed", "\r\n", "\r\n">>)>>
HandledAndClosed == dispatch.pc = "closed" /\ SentWhole /\ dispatch.first = dispatch.stream[1]

\* C24: in the HTTP front-end a non-CONNECT request with no Host header and a
\* non-absolute URI is answered with 400 Bad Request, and a request whose
\* method is outside {CONNECT, GET, POST, PUT, DELETE, HEAD, OPTIONS, PATCH,
\* TRACE} is answered with 405 Method Not Allowed; in both cases the connection
\* is closed and no routing decision, upstream dial or direct dial is made.
C24_BadRequestAnswers ==
    HandledAndClosed =>
        /\ (SentMethod # CONNECTMethod /\ ~SentHostHeader /\ ~SentAbsolute) =>
              (Answered400 /\ front.calls = <<>> /\ ~connOpen)
        /\ SentMethod \notin ClaimedMethods =>
              (Answered405 /\ front.calls = <<>> /\ ~connOpen)

\* C24 as amended: a GET, POST, PUT, DELETE, HEAD, OPTIONS, PATCH or TRACE
\* request with no Host header and a non-absolute URI is answered with 400; a
\* request whose method is outside the nine is answered with 405 by
\* proxyServer.go, and by ProxyClient with 405 when it names a host and with
\* 400 when it names none; in each case the connection is closed and no
\* routing decision or dial is made.
C24_BadRequestAnswersByVariant ==
    HandledAndClosed =>
        /\ (SentMethod \in ClaimedMethods \ {CONNECTMethod} /\ ~SentHostHeader
              /\ ~SentAbsolute) =>
              (Answered400 /\ front.calls = <<>> /\ ~connOpen)
        /\ SentMethod \notin ClaimedMethods =>
              /\ IF impl = "client" /\ ~SentHostHeader /\ ~SentAbsolute
                 THEN Answered400 ELSE Answered405
              /\ front.calls = <<>>
              /\ ~connOpen

\* a PROPFIND request that names a host has been answered with 405
C24_Witness ==
    /\ HandledAndClosed
    /\ SentMethod = <<"P", "ROPFIND">>
    /\ SentHostHeader
    /\ Answered405

\* a non-CONNECT request was forwarded: handleTunnel was called in HTTPProxy mode
Forwarding ==
    /\ SentWhole
    /\ front.pc \in {"tunnel", "done"}
    /\ front.mode = ModeHTTPProxy
\* the hosts the request names: the authority of an absolute URI, else the
\* values of its Host headers
NamedHosts ==
    IF SentAbsolute THEN {AuthorityOf(SentURL)}
    ELSE {HeaderValue(SentHeaders[i]) : i \in {j \in 1 .. Len(SentHeaders) : SentHeaders[j][1] = "Host"}}
EndsWithPort(name) ==
    /\ Len(name) >= 3
    /\ name[Len(name) - 1] = ":"
    /\ name[Len(name)] \in {"80", "443", "8080"}

\* C25: for every non-CONNECT HTTP request that is forwarded, the target handed
\* to routing and to the tunnel or direct path carries an explicit port: the
\* port of the URI authority or Host header when one is present, otherwise :80
\* is appended, for domain, IPv4 and bracketed IPv6 hosts alike.
C25_TargetCarriesPort ==
    Forwarding =>
        \E name \in NamedHosts :
            front.target = IF EndsWithPort(name) THEN name ELSE name \o <<":", "80">>

\* where the header block of a frame ends: the first CRLF followed by a CRLF
HeadEnd(frame) ==
    CHOOSE i \in 1 .. Len(frame) - 1 :
        /\ frame[i] = CRLF /\ frame[i + 1] = CRLF
        /\ \A j \in 1 .. i - 1 : ~(frame[j] = CRLF /\ frame[j + 1] = CRLF)

RECURSIVE SplitLines(_, _)
\* the lines of a text, cut at each CRLF, cur being the line begun
SplitLines(text, cur) ==
    IF text = <<>> THEN <<>>
    ELSE IF text[1] = CRLF THEN <<cur>> \o SplitLines(Tail(text), <<>>)
    ELSE SplitLines(Tail(text), Append(cur, text[1]))

\* a first frame parsed again: the request line, the header lines, the body
Reparse(frame) ==
    LET ls == SplitLines(SubSeq(frame, 1, HeadEnd(frame)), <<>>)
    IN  [method |-> FieldsFrom(ls[1], 1, <<>>)[1],
         path |-> FieldsFrom(ls[1], 1, <<>>)[2],
         headers |-> Tail(ls),
         body |-> SubSeq(frame, HeadEnd(frame) + 2, Len(frame))]

\* the origin-form path of the request as sent
SentPath ==
    IF SentAbsolute
    THEN IF IndexOf(Tail(SentURL), "/") = 0 THEN <<"/">>
         ELSE SubSeq(Tail(SentURL), IndexOf(Tail(SentURL), "/"), Len(SentURL) - 1)
    ELSE SentURL
\* the header lines as sent, but the two proxy headers
SentHeadersKept ==
    Without(SentHeaders, {<<"proxy-connection">>, <<"proxy-authorization">>})

\* C26: the rewritten HTTP first frame, parsed again, yields the same method,
\* the origin-form path of the original request, the original header lines in
\* order minus exactly Proxy-Connection and Proxy-Authorization, and the same
\* body: the number of body bytes in the first frame equals the Content-Length
\* value carried in its headers (zero when absent).
C26_FirstFrameRoundTrip ==
    Forwarding =>
        LET f == Reparse(front.firstFrame)
        IN  /\ f.method = SentMethod
            /\ f.path = SentPath
            /\ f.headers = SentHeadersKept
            /\ Len(f.body) = Sscanf(LastValue(f.headers, <<"content-length">>))
            /\ f.body = SubSeq(front.body, 1, Len(f.body))

\* -------------------------------------------- a connection, either front-end
InitFront == InitSocks5 \/ InitHTTP

NextFront ==
    \/ ReadFirstByte
    \/ Classify
    \/ S5Greeting
    \/ S5Request
    \/ S5Address
    \/ S5Port
    \/ S5Command
    \/ FrontUDP
    \/ HTTPRead
    \/ HTTPSwitch
    \/ FrontHandleTunnel
    \/ DispatchReturn

SpecFront == InitFront /\ [][NextFront]_vars

\* C21: for every accepted connection exactly one of these occurs: the SOCKS5
\* handshake completed (the greeting was answered with 05 00), the HTTP request
\* was parsed (its request line and headers came whole), or the connection was
\* closed without any byte written to the client.
C21_OneOutcome ==
    /\ ~(GreetingAnswered /\ SentWhole)
    /\ GreetingAnswered => clientOut # <<>>
    /\ (~GreetingAnswered /\ ~SentWhole) => clientOut = <<>>
    /\ (dispatch.pc = "closed" /\ ~GreetingAnswered /\ ~SentWhole) => ~connOpen

\* a request cut before its blank line has been dropped with nothing written,
\* or a greeting has been answered
C21_Witness ==
    /\ dispatch.pc = "closed"
    /\ dispatch.to = "http"
    /\ ~SentWhole
    /\ Len(front.lines) >= 2
    /\ clientOut = <<>>
    /\ ~connOpen

\* ------------------------------------------- utils.HandleDirectConnection
\* The calls the program makes: ModeSOCKS5 and ModeHTTPConnect with an empty
\* first frame, ModeHTTPProxy with the rewritten request.
DirectCalls ==
    {[mode |-> ModeSOCKS5, firstFrame |-> <<>>],
     [mode |-> ModeHTTPConnect, firstFrame |-> <<>>],
     [mode |-> ModeHTTPProxy, firstFrame |-> <<"GET / HTTP/1.1">>]}

\* HandleDirectConnection starting the two copies without sending the first frame
DirectAfterNoFrame(pc, firstFrame) ==
    CASE pc = "dialed" -> "respond"
      [] pc = "respond" -> "splice"
      [] OTHER -> "splice"

\* the statement after each of dial, SendSuccessResponse and the first frame
DirectAfter(pc, firstFrame) ==
    CASE pc = "dialed" -> "respond"
      [] pc = "respond" -> IF firstFrame # <<>> THEN "frame" ELSE "splice"
      [] pc = "frame" -> "splice"

Did(e) == direct' = [direct EXCEPT !.log = Append(@, e)]

directFrame ==
    <<impl, route, hpc, hret, reply, kpc, cpc, spc, writers, mu, ws, stopPing,
      doneClosed, doneBuf, wsOut, up, down>>

\* net.DialTimeout("tcp", target, 10 s): on an error SendErrorResponse and return
DirDial ==
    /\ direct.pc = "start"
    /\ \E ok \in BOOLEAN :
        IF ok
        THEN /\ direct' = [direct EXCEPT !.pc = DirectAfter("dialed", direct.firstFrame),
                                          !.target = "open", !.log = Append(@, "dial")]
             /\ UNCHANGED clientOut
        ELSE /\ direct' = [direct EXCEPT !.pc = "returned",
                                          !.log = @ \o <<"dialFailed", "error">>]
             /\ clientOut' = SendErrorResponse(clientOut, mode)
    /\ UNCHANGED <<directFrame, mode, connOpen>>
    /\ UNCHANGED <<rangeVars, dialVars, reloadVars, auxVars, flowVars, dispatch, front, udp, srv>>

\* SendSuccessResponse(conn, mode): an error of the write returns
DirRespond ==
    /\ direct.pc = "respond"
    /\ \E ok \in BOOLEAN :
        /\ mode = ModeHTTPProxy => ok
        /\ IF ok
           THEN /\ clientOut' = SendSuccessResponse(clientOut, mode)
                /\ direct' = [direct EXCEPT
                                !.pc = DirectAfter("respond", direct.firstFrame),
                                !.log = IF mode = ModeHTTPProxy THEN @
                                        ELSE Append(@, "success")]
           ELSE /\ direct' = [direct EXCEPT !.pc = "return"]
                /\ UNCHANGED clientOut
    /\ UNCHANGED <<directFrame, mode, connOpen>>
    /\ UNCHANGED <<rangeVars, dialVars, reloadVars, auxVars, flowVars, dispatch, front, udp, srv>>

\* targetConn.Write([]byte(firstFrame)): an error returns
DirFrame ==
    /\ direct.pc = "frame"
    /\ \E ok \in BOOLEAN :
        IF ok
        THEN direct' = [direct EXCEPT !.pc = DirectAfter("frame", direct.firstFrame),
                                      !.log = Append(@, "frame")]
        ELSE direct' = [direct EXCEPT !.pc = "return"]
    /\ UNCHANGED <<directFrame, mode, connOpen, clientOut>>
    /\ UNCHANGED <<rangeVars, dialVars, reloadVars, auxVars, flowVars, dispatch, front, udp, srv>>

\* the two go statements
DirSpawn ==
    /\ direct.pc = "splice"
    /\ direct' = [direct EXCEPT !.pc = "wait", !.up = "copy", !.down = "copy",
                                 !.log = Append(@, "spawn")]
    /\ UNCHANGED <<directFrame, mode, connOpen, clientOut>>
    /\ UNCHANGED <<rangeVars, dialVars, reloadVars, auxVars, flowVars, dispatch, front, udp, srv>>

\* io.Copy(targetConn, conn): a chunk goes to the target, or the copy ends and
\* done <- true
DirUp ==
    /\ direct.up = "copy"
    /\ \E more \in BOOLEAN :
        /\ more => (connOpen /\ direct.target = "open" /\ direct.nup < MaxUp)
        /\ direct' = IF more
                     THEN [direct EXCEPT !.nup = @ + 1, !.log = Append(@, "up")]
                     ELSE [direct EXCEPT !.up = "gone", !.done = @ + 1,
                                          !.log = Append(@, "upEnd")]
    /\ UNCHANGED <<directFrame, mode, connOpen, clientOut>>
    /\ UNCHANGED <<rangeVars, dialVars, reloadVars, auxVars, flowVars, dispatch, front, udp, srv>>

\* io.Copy(conn, targetConn): a chunk goes to the client, or the copy ends and
\* done <- true
DirDown ==
    /\ direct.down = "copy"
    /\ \E more \in BOOLEAN :
        /\ more => (connOpen /\ direct.target = "open" /\ direct.ndown < MaxDown)
        /\ direct' = IF more
                     THEN [direct EXCEPT !.ndown = @ + 1, !.log = Append(@, "down")]
                     ELSE [direct EXCEPT !.down = "gone", !.done = @ + 1,
                                          !.log = Append(@, "downEnd")]
        /\ clientOut' = IF more THEN Append(clientOut, Payload) ELSE clientOut
    /\ UNCHANGED <<directFrame, mode, connOpen>>
    /\ UNCHANGED <<rangeVars, dialVars, reloadVars, auxVars, flowVars, dispatch, front, udp, srv>>

\* <-done
DirWait ==
    /\ direct.pc = "wait"
    /\ direct.done > 0
    /\ direct' = [direct EXCEPT !.pc = "return", !.done = @ - 1]
    /\ UNCHANGED <<directFrame, mode, connOpen, clientOut>>
    /\ UNCHANGED <<rangeVars, dialVars, reloadVars, auxVars, flowVars, dispatch, front, udp, srv>>

\* return: defer targetConn.Close()
DirReturn ==
    /\ direct.pc = "return"
    /\ direct' = [direct EXCEPT !.pc = "returned", !.target = "closed",
                                 !.log = Append(@, "closeTarget")]
    /\ UNCHANGED <<directFrame, mode, connOpen, clientOut>>
    /\ UNCHANGED <<rangeVars, dialVars, reloadVars, auxVars, flowVars, dispatch, front, udp, srv>>

\* handleConnection returns after it: defer conn.Close()
DirConnClose ==
    /\ direct.pc = "returned"
    /\ connOpen
    /\ connOpen' = FALSE
    /\ UNCHANGED <<directFrame, mode, clientOut, direct>>
    /\ UNCHANGED <<rangeVars, dialVars, reloadVars, auxVars, flowVars, dispatch, front, udp, srv>>

InitDirect ==
    /\ RangeIdle
    /\ DialIdle
    /\ ReloadIdle
    /\ impl \in {"client", "server"}
    /\ route = "direct"
    /\ hpc = "idle"
    /\ hret = "none"
    /\ reply = NoReply
    /\ kpc = "none"
    /\ cpc = "none"
    /\ spc = "none"
    /\ writers = {}
    /\ mu = "free"
    /\ ws = "none"
    /\ stopPing = FALSE
    /\ connOpen = TRUE
    /\ doneClosed = FALSE
    /\ doneBuf = 0
    /\ clientOut = <<>>
    /\ wsOut = <<>>
    /\ up = 0
    /\ down = 0
    /\ clientIn = <<>>
    /\ wsIn = <<>>
    /\ firstFail = "none"
    /\ torn = {}
    /\ deadline = FALSE
    /\ dispatch = NotAccepted
    /\ front = NoFront
    /\ udp = NoUDP
    /\ srv = NoServer
    /\ \E c \in DirectCalls :
        /\ mode = c.mode
        /\ direct = [pc |-> "start", firstFrame |-> c.firstFrame, target |-> "none",
                     up |-> "none", down |-> "none", nup |-> 0, ndown |-> 0, done |-> 0,
                     log |-> <<>>]

NextDirect ==
    \/ DirDial
    \/ DirRespond
    \/ DirFrame
    \/ DirSpawn
    \/ DirUp
    \/ DirDown
    \/ DirWait
    \/ DirReturn
    \/ DirConnClose

SpecDirect == InitDirect /\ [][NextDirect]_vars

\* under the scheduler a goroutine that can run does run
SpecDirectFair ==
    /\ SpecDirect
    /\ WF_vars(DirWait)
    /\ WF_vars(DirReturn)

\* the place of the first e among the effects, 0 when there is none
Pos(e) ==
    IF \E i \in 1..Len(direct.log) : direct.log[i] = e
    THEN CHOOSE i \in 1..Len(direct.log) :
            /\ direct.log[i] = e
            /\ \A j \in 1..(i - 1) : direct.log[j] # e
    ELSE 0

Has(e) == Pos(e) > 0

CopyEffects == {"up", "down", "upEnd", "downEnd"}

SpliceEnded == Has("upEnd") \/ Has("downEnd")

DirectOrder ==
    /\ direct.log # <<>> => direct.log[1] \in {"dial", "dialFailed"}
    /\ Has("dialFailed") =>
        /\ direct.log = <<"dialFailed", "error">>
        /\ clientOut = SendErrorResponse(<<>>, mode)
        /\ direct.target = "none"
        /\ direct.pc = "returned"
    /\ Has("error") => Has("dialFailed")
    /\ Has("success") <=>
        (Has("dial") /\ clientOut # <<>> /\ clientOut[1] # Payload)
    /\ Has("success") =>
        /\ mode \in {ModeSOCKS5, ModeHTTPConnect}
        /\ clientOut[1] = SendSuccessResponse(<<>>, mode)[1]
        /\ Pos("success") = 2
    /\ Has("frame") => Pos("frame") = Len(SelectSeq(direct.log, LAMBDA e : e = "success")) + 2
    /\ Has("spawn") =>
        /\ mode \in {ModeSOCKS5, ModeHTTPConnect} => Has("success")
        /\ direct.firstFrame # <<>> => Has("frame")
        /\ Pos("spawn") = Len(SelectSeq(direct.log,
                                LAMBDA e : e \in {"dial", "success", "frame"})) + 1
    /\ \A i \in 1..Len(direct.log) :
        direct.log[i] \in CopyEffects => (Has("spawn") /\ Pos("spawn") < i)
    /\ Has("closeTarget") =>
        /\ direct.target = "closed"
        /\ Has("spawn") => \E e \in {"upEnd", "downEnd"} :
                              Has(e) /\ Pos(e) < Pos("closeTarget")
    /\ direct.target = "closed" <=> Has("closeTarget")

\* C27: on the direct path the dial comes first; a failed dial writes the
\* mode's error response and nothing else; after a dial the success response
\* (SOCKS5 and HTTP CONNECT only) comes before the first frame (when not
\* empty), both before the two copies start, and once either copy has ended
\* the handler returns and the target socket is closed.
C27_DirectOrder ==
    /\ []DirectOrder
    /\ SpliceEnded ~> (direct.pc = "returned" /\ direct.target = "closed")

C27_Witness ==
    /\ mode = ModeHTTPProxy
    /\ Has("frame")
    /\ Has("spawn")
    /\ Has("up")
    /\ Has("downEnd")
    /\ direct.up = "copy"
    /\ direct.target = "closed"

\* ------------------------------ handleUDPAssociate, handleUDPRelay, handleDNSQuery
\* datagrams one association receives at most
MaxDatagrams == 2

\* datagrams a client may send to the association's socket, with their source:
\* two DNS queries to IPv4 servers, one to a named server, a datagram for
\* port 80, a fragment, a short one and one of an unknown address type
Datagrams ==
    {[src |-> "a", bytes |-> <<0, 0, 0, 1, 8, 8, 8, 8, 0, 53, 171, 1>>],
     [src |-> "b", bytes |-> <<0, 0, 0, 1, 1, 1, 1, 1, 0, 53, 205, 2>>],
     [src |-> "a", bytes |-> <<0, 0, 0, 3, 1, 120, 0, 53, 239, 3>>],
     [src |-> "b", bytes |-> <<0, 0, 0, 1, 8, 8, 8, 8, 0, 80, 99, 9>>],
     [src |-> "a", bytes |-> <<0, 0, 1, 1, 8, 8, 8, 8, 0, 53, 171, 1>>],
     [src |-> "b", bytes |-> <<0, 0, 0, 1, 8>>],
     [src |-> "a", bytes |-> <<0, 0, 0, 9, 8, 8, 8, 8, 0, 53, 171, 1>>]}

\* ports net.ListenUDP may bind, high byte first
UdpPorts == {<<192, 0>>, <<234, 96>>}

UdpFailure == <<5, 1, 0, 1, 0, 0, 0, 0, 0, 0>>
UdpSuccess(port) == <<5, 0, 0, 1, 127, 0, 0, 1>> \o port

\* the SOCKS5 UDP header of n bytes in data: 0 when the datagram is skipped,
\* else the header length
HeaderLen(data, n) ==
    IF n < 10 THEN 0
    ELSE IF data[3] # 0 THEN 0
    ELSE CASE data[4] = 1 -> 10
           [] data[4] = 3 -> IF n < 7 + data[5] THEN 0 ELSE 7 + data[5]
           [] data[4] = 4 -> IF n < 22 THEN 0 ELSE 22
           [] OTHER -> 0

\* dstPort of a datagram with a header of h bytes
DstPort(data, h) == data[h - 1] * 256 + data[h]

\* ReadFromUDP(buf): the datagram replaces the first bytes of the buffer
Overwrite(buf, data) ==
    [i \in 1..(IF Len(buf) > Len(data) THEN Len(buf) ELSE Len(data)) |->
        IF i <= Len(data) THEN data[i] ELSE buf[i]]

\* the answer of the DoH server to a query
Answer(q) == <<129>> \o q

\* handleUDPAssociate returning without udpConn.Close()
AfterTCPReadLeavesSocket(pc) ==
    CASE pc = "read" -> "stop"
      [] pc = "stop" -> "returned"
      [] OTHER -> "returned"

\* handleUDPAssociate after tcpConn.Read: close(stopChan), udpConn.Close(), return
AfterTCPRead(pc) ==
    CASE pc = "read" -> "stop"
      [] pc = "stop" -> "close"
      [] pc = "close" -> "returned"

udpFrame ==
    <<impl, mode, route, hpc, hret, reply, kpc, cpc, spc, writers, mu, ws, stopPing,
      connOpen, doneClosed, doneBuf, wsOut, up, down>>

\* net.ResolveUDPAddr and net.ListenUDP: on an error the failure reply, return
UdpListen ==
    /\ udp.pc = "listen"
    /\ \/ /\ udp' = [udp EXCEPT !.pc = "returned"]
          /\ clientOut' = Append(clientOut, UdpFailure)
       \/ \E port \in UdpPorts :
            /\ udp' = [udp EXCEPT !.pc = "reply", !.sock = "open", !.port = port]
            /\ UNCHANGED clientOut
    /\ UNCHANGED udpFrame
    /\ UNCHANGED <<rangeVars, dialVars, reloadVars, auxVars, flowVars, dispatch, front, direct, srv>>

\* tcpConn.Write(response): on an error udpConn.Close() and return; else
\* stopChan is made and the relay started
UdpReply ==
    /\ udp.pc = "reply"
    /\ \E ok \in BOOLEAN :
        IF ok
        THEN /\ clientOut' = Append(clientOut, UdpSuccess(udp.port))
             /\ udp' = [udp EXCEPT !.pc = "read", !.relay = "select"]
        ELSE /\ udp' = [udp EXCEPT !.pc = "returned", !.sock = "closed"]
             /\ UNCHANGED clientOut
    /\ UNCHANGED udpFrame
    /\ UNCHANGED <<rangeVars, dialVars, reloadVars, auxVars, flowVars, dispatch, front, direct, srv>>

\* tcpConn.Read(buf) returns: a byte, EOF or an error
UdpTCPRead ==
    /\ udp.pc = "read"
    /\ \E r \in {"data", "EOF", "error"} :
        udp' = [udp EXCEPT !.pc = AfterTCPRead("read"), !.tcpRead = r]
    /\ UNCHANGED <<udpFrame, clientOut>>
    /\ UNCHANGED <<rangeVars, dialVars, reloadVars, auxVars, flowVars, dispatch, front, direct, srv>>

\* close(stopChan)
UdpStop ==
    /\ udp.pc = "stop"
    /\ udp' = [udp EXCEPT !.pc = AfterTCPRead("stop"), !.stop = TRUE]
    /\ UNCHANGED <<udpFrame, clientOut>>
    /\ UNCHANGED <<rangeVars, dialVars, reloadVars, auxVars, flowVars, dispatch, front, direct, srv>>

\* udpConn.Close() and the return
UdpClose ==
    /\ udp.pc = "close"
    /\ udp' = [udp EXCEPT !.pc = AfterTCPRead("close"), !.sock = "closed"]
    /\ UNCHANGED <<udpFrame, clientOut>>
    /\ UNCHANGED <<rangeVars, dialVars, reloadVars, auxVars, flowVars, dispatch, front, direct, srv>>

\* handleUDPRelay, the head of the loop: select on stopChan
RelaySelect ==
    /\ udp.relay = "select"
    /\ udp' = [udp EXCEPT !.relay = IF udp.stop THEN "gone" ELSE "read"]
    /\ UNCHANGED <<udpFrame, clientOut>>
    /\ UNCHANGED <<rangeVars, dialVars, reloadVars, auxVars, flowVars, dispatch, front, direct, srv>>

\* ReadFromUDP with a deadline of a second: the deadline passes and the loop
\* continues, or another error returns
RelayReadError ==
    /\ udp.relay = "read"
    /\ udp' = [udp EXCEPT !.relay = IF udp.sock = "open" THEN "select" ELSE "gone"]
    /\ UNCHANGED <<udpFrame, clientOut>>
    /\ UNCHANGED <<rangeVars, dialVars, reloadVars, auxVars, flowVars, dispatch, front, direct, srv>>

\* ReadFromUDP reads a datagram into buf; the header is parsed and for port 53
\* handleDNSQuery is started on slices of buf
RelayReadDatagram ==
    /\ udp.relay = "read"
    /\ udp.sock = "open"
    /\ udp.received < MaxDatagrams
    /\ \E d \in Datagrams :
        LET n == Len(d.bytes)
            buf == Overwrite(udp.buf, d.bytes)
            h == HeaderLen(buf, n)
            dns == h > 0 /\ DstPort(buf, h) = 53
            task == [addr |-> d.src, h |-> h, n |-> n, pc |-> "post", q |-> <<>>,
                     of |-> d]
        IN  udp' = [udp EXCEPT !.relay = "select", !.buf = buf,
                                !.received = @ + 1,
                                !.tasks = IF dns THEN Append(@, task) ELSE @]
    /\ UNCHANGED <<udpFrame, clientOut>>
    /\ UNCHANGED <<rangeVars, dialVars, reloadVars, auxVars, flowVars, dispatch, front, direct, srv>>

\* the goroutines still running, without the i-th
Ended(tasks, i) == SubSeq(tasks, 1, i - 1) \o SubSeq(tasks, i + 1, Len(tasks))

\* handleDNSQuery: queryDoHForProxy posts the bytes dnsQuery holds when the
\* request body is written; an error returns
DnsPost ==
    /\ \E i \in 1..Len(udp.tasks), ok \in BOOLEAN :
        /\ udp.tasks[i].pc = "post"
        /\ udp' = [udp EXCEPT
                     !.tasks = IF ok
                               THEN [@ EXCEPT ![i].pc = "respond",
                                              ![i].q = SubSeq(udp.buf, udp.tasks[i].h + 1,
                                                                udp.tasks[i].n)]
                               ELSE Ended(@, i)]
    /\ UNCHANGED <<udpFrame, clientOut>>
    /\ UNCHANGED <<rangeVars, dialVars, reloadVars, auxVars, flowVars, dispatch, front, direct, srv>>

\* handleDNSQuery: the bytes socks5Header holds now and the answer are sent to
\* clientAddr; on a closed socket WriteToUDP fails
DnsRespond ==
    /\ \E i \in 1..Len(udp.tasks) :
        LET t == udp.tasks[i]
            response == SubSeq(udp.buf, 1, t.h) \o Answer(t.q)
        IN  /\ t.pc = "respond"
            /\ udp' = [udp EXCEPT
                         !.tasks = Ended(@, i),
                         !.sent = IF udp.sock = "open"
                                  THEN @ \union {[to |-> t.addr, bytes |-> response,
                                                   of |-> t.of]}
                                  ELSE @]
    /\ UNCHANGED <<udpFrame, clientOut>>
    /\ UNCHANGED <<rangeVars, dialVars, reloadVars, auxVars, flowVars, dispatch, front, direct, srv>>

InitUDP ==
    /\ RangeIdle
    /\ DialIdle
    /\ ReloadIdle
    /\ ConnIdle
    /\ impl \in {"client", "server"}
    /\ dispatch = NotAccepted
    /\ front = NoFront
    /\ direct = NoDirect
    /\ srv = NoServer
    /\ udp = [pc |-> "listen", sock |-> "none", port |-> <<>>, stop |-> FALSE,
              tcpRead |-> "none", relay |-> "none", buf |-> <<>>,
              received |-> 0, tasks |-> <<>>, sent |-> {}]

NextUDP ==
    \/ UdpListen
    \/ UdpReply
    \/ UdpTCPRead
    \/ UdpStop
    \/ UdpClose
    \/ RelaySelect
    \/ RelayReadError
    \/ RelayReadDatagram
    \/ DnsPost
    \/ DnsRespond

SpecUDP == InitUDP /\ [][NextUDP]_vars

\* a goroutine that can run does run, and a read with a deadline returns
SpecUDPFair ==
    /\ SpecUDP
    /\ WF_vars(UdpStop)
    /\ WF_vars(UdpClose)
    /\ WF_vars(RelaySelect)
    /\ WF_vars(RelayReadError \/ RelayReadDatagram)

TCPReadReturned == udp.tcpRead # "none"

RelayStarted == udp.relay # "none"

SentHeaderLen(s) == HeaderLen(s.of.bytes, Len(s.of.bytes))

\* C29: every DoH answer sent on the association's socket starts with the
\* SOCKS5 UDP header of the datagram that carried the query, carries the
\* answer to that datagram's DNS payload and goes to that datagram's source,
\* whatever is received meanwhile; a datagram not for port 53 gets no response.
C29_AnswersMirrorQuery ==
    \A s \in udp.sent :
        /\ SentHeaderLen(s) > 0
        /\ DstPort(s.of.bytes, SentHeaderLen(s)) = 53
        /\ s.to = s.of.src
        /\ s.bytes = SubSeq(s.of.bytes, 1, SentHeaderLen(s))
                       \o Answer(SubSeq(s.of.bytes, SentHeaderLen(s) + 1, Len(s.of.bytes)))

\* ------------------------------------------- runProxyServer, handleConnection
\* connections the listener accepts at most
MaxConns == 2

Conns == 1..MaxConns

\* the goroutines of a tunnel session that write to its WebSocket
Writers == {"forward", "keepalive"}

NoSession == [st |-> "none", writers |-> {}, failed |-> {}]

\* WriteMessage may be entered: proxyServer.go takes mu around every write,
\* ProxyClient and WebSocketWrap take no lock
MayWrite(i, inside) == i = "client" \/ inside = {}

serverFrame ==
    <<mode, route, hpc, hret, reply, kpc, cpc, spc, writers, mu, ws, stopPing,
      connOpen, doneClosed, doneBuf, wsOut, up, down, clientOut>>

Running == srv.alive

\* listener.Accept() returns an error: it is logged and the loop continues
AcceptError ==
    /\ Running
    /\ srv' = [srv EXCEPT !.last = "error"]
    /\ UNCHANGED <<impl, serverFrame>>
    /\ UNCHANGED <<rangeVars, dialVars, reloadVars, auxVars, flowVars, dispatch, front, direct, udp>>

\* listener.Accept() returns a connection: go p.handleConnection(conn)
AcceptConn ==
    /\ Running
    /\ srv.accepted < MaxConns
    /\ srv' = [srv EXCEPT !.last = "conn", !.accepted = @ + 1,
                           !.sess[srv.accepted + 1].st = "classify"]
    /\ UNCHANGED <<impl, serverFrame>>
    /\ UNCHANGED <<rangeVars, dialVars, reloadVars, auxVars, flowVars, dispatch, front, direct, udp>>

\* handleConnection: the first byte and the front-end end the connection
\* (unknown protocol, a handshake or parse error, a failed dial) or begin a
\* tunnel session, a direct connection or a UDP association
SessionBegin ==
    /\ Running
    /\ \E i \in Conns, to \in {"closed", "tunnel", "direct", "udp"} :
        /\ srv.sess[i].st = "classify"
        /\ srv' = [srv EXCEPT !.sess[i].st = to]
    /\ UNCHANGED <<impl, serverFrame>>
    /\ UNCHANGED <<rangeVars, dialVars, reloadVars, auxVars, flowVars, dispatch, front, direct, udp>>

\* a goroutine of a tunnel session enters WriteMessage; when another one is
\* inside, gorilla's connection either interleaves the frames or panics
\* ("concurrent write to websocket connection"), and a panic no goroutine
\* recovers ends the process
WriteBegin ==
    /\ Running
    /\ \E i \in Conns, w \in Writers, outcome \in {"written", "panic"} :
        /\ srv.sess[i].st = "tunnel"
        /\ w \notin srv.sess[i].writers
        /\ MayWrite(impl, srv.sess[i].writers)
        /\ outcome = "panic" => srv.sess[i].writers # {}
        /\ srv' = [srv EXCEPT !.sess[i].writers = @ \union {w},
                               !.alive = outcome # "panic"]
    /\ UNCHANGED <<impl, serverFrame>>
    /\ UNCHANGED <<rangeVars, dialVars, reloadVars, auxVars, flowVars, dispatch, front, direct, udp>>

\* WriteMessage returns, with an error or without; the error of a ping is
\* ignored, the error of a payload ends the forwarding task
WriteEnd ==
    /\ Running
    /\ \E i \in Conns, w \in Writers, ok \in BOOLEAN :
        /\ w \in srv.sess[i].writers
        /\ srv' = [srv EXCEPT !.sess[i].writers = @ \ {w},
                               !.sess[i].failed = IF ok THEN @ ELSE @ \union {w}]
    /\ UNCHANGED <<impl, serverFrame>>
    /\ UNCHANGED <<rangeVars, dialVars, reloadVars, auxVars, flowVars, dispatch, front, direct, udp>>

\* a task of a UDP association ends with an error: a DoH query fails, or the
\* relay's read fails; no other goroutine is told
TaskError ==
    /\ Running
    /\ \E i \in Conns, t \in {"relay", "query"} :
        /\ srv.sess[i].st = "udp"
        /\ t \notin srv.sess[i].failed
        /\ srv' = [srv EXCEPT !.sess[i].failed = @ \union {t}]
    /\ UNCHANGED <<impl, serverFrame>>
    /\ UNCHANGED <<rangeVars, dialVars, reloadVars, auxVars, flowVars, dispatch, front, direct, udp>>

\* the handler of a session returns, after an error or a normal end of one of
\* its tasks: defer conn.Close()
SessionEnd ==
    /\ Running
    /\ \E i \in Conns :
        /\ srv.sess[i].st \in {"tunnel", "direct", "udp"}
        /\ srv.sess[i].writers = {}
        /\ srv' = [srv EXCEPT !.sess[i].st = "closed"]
    /\ UNCHANGED <<impl, serverFrame>>
    /\ UNCHANGED <<rangeVars, dialVars, reloadVars, auxVars, flowVars, dispatch, front, direct, udp>>

InitServer ==
    /\ RangeIdle
    /\ DialIdle
    /\ ReloadIdle
    /\ ConnIdle
    /\ impl \in {"client", "server"}
    /\ dispatch = NotAccepted
    /\ front = NoFront
    /\ direct = NoDirect
    /\ udp = NoUDP
    /\ srv = [pc |-> "accept", alive |-> TRUE, last |-> "none", accepted |-> 0,
              sess |-> [i \in Conns |-> NoSession]]

NextServer ==
    \/ AcceptError
    \/ AcceptConn
    \/ SessionBegin
    \/ WriteBegin
    \/ WriteEnd
    \/ TaskError
    \/ SessionEnd

SpecServer == InitServer /\ [][NextServer]_vars

\* C30: the accept loop never stops accepting, and an accept error or the
\* error or abnormal end of any task of a connection leaves the listener
\* accepting and the other sessions running.
C30_AcceptLoopSurvives ==
    /\ srv.alive
    /\ srv.pc = "accept"

\* the same of proxyServer.go alone, whose writes take the mutex
ServerLoopSurvives == impl = "server" => C30_AcceptLoopSurvives

\* ------------------------------- Ech: PrepareECH, RefreshECH, GetECHList together
\* calls each goroutine makes at most
MaxCalls == 2

\* two goroutines calling PrepareECH or RefreshECH, one calling GetECHList
Preparers == {"p1", "p2"}
Getter == "g"

NoCall == [pc |-> "idle", raw |-> <<>>, stores |-> 0, n |-> 0]

echFrame == <<dpc, attempt, echBytes, dialLog, dialRet, tlsCall>>

\* PrepareECH up to the lock: the query, the empty text, the decoding; an
\* error returns
EchQuery ==
    /\ \E c \in Preparers, q \in QueryHTTPSRecordResults :
        LET call == ech.calls[c]
            r == PrepareECHOn(q, <<>>)
        IN  /\ call.pc = "idle"
            /\ call.n < MaxCalls
            /\ ech' = IF r.err = "nil"
                      THEN [ech EXCEPT !.calls[c] = [call EXCEPT !.pc = "lock", !.raw = r.list,
                                                                  !.stores = 0, !.n = @ + 1]]
                      ELSE [ech EXCEPT !.calls[c] = [call EXCEPT !.n = @ + 1, !.stores = 0],
                                       !.returned = @ \union {[err |-> r.err, stores |-> 0]}]
    /\ UNCHANGED <<echList, echFrame, sysproxy, store, est, sess>>
    /\ UNCHANGED <<rangeVars, tunnelVars, reloadVars, flowVars, dispatch, frontVars>>

\* e.echListMu.Lock()
EchLock ==
    /\ \E c \in Preparers :
        /\ ech.calls[c].pc = "lock"
        /\ ~ech.writer
        /\ ech.readers = 0
        /\ ech' = [ech EXCEPT !.calls[c].pc = "store", !.writer = TRUE]
    /\ UNCHANGED <<echList, echFrame, sysproxy, store, est, sess>>
    /\ UNCHANGED <<rangeVars, tunnelVars, reloadVars, flowVars, dispatch, frontVars>>

\* e.echList = raw
EchStore ==
    /\ \E c \in Preparers :
        /\ ech.calls[c].pc = "store"
        /\ echList' = ech.calls[c].raw
        /\ ech' = [ech EXCEPT !.calls[c].pc = "unlock", !.calls[c].stores = @ + 1,
                               !.stored = @ \union {ech.calls[c].raw}]
    /\ UNCHANGED <<echFrame, sysproxy, store, est, sess>>
    /\ UNCHANGED <<rangeVars, tunnelVars, reloadVars, flowVars, dispatch, frontVars>>

\* e.echListMu.Unlock(), return nil
EchUnlock ==
    /\ \E c \in Preparers :
        /\ ech.calls[c].pc = "unlock"
        /\ ech' = [ech EXCEPT !.calls[c].pc = "idle", !.writer = FALSE,
                               !.returned = @ \union {[err |-> "nil",
                                                       stores |-> ech.calls[c].stores]}]
    /\ UNCHANGED <<echList, echFrame, sysproxy, store, est, sess>>
    /\ UNCHANGED <<rangeVars, tunnelVars, reloadVars, flowVars, dispatch, frontVars>>

\* GetECHList: e.echListMu.RLock()
GetRLock ==
    /\ ech.calls[Getter].pc = "idle"
    /\ ech.calls[Getter].n < MaxCalls
    /\ ~ech.writer
    /\ ech' = [ech EXCEPT !.calls[Getter].pc = "check", !.calls[Getter].n = @ + 1,
                           !.readers = @ + 1]
    /\ UNCHANGED <<echList, echFrame, sysproxy, store, est, sess>>
    /\ UNCHANGED <<rangeVars, tunnelVars, reloadVars, flowVars, dispatch, frontVars>>

\* GetECHList: the length test and the return value
GetCheck ==
    /\ ech.calls[Getter].pc = "check"
    /\ ech' = [ech EXCEPT !.calls[Getter].pc = "runlock",
                           !.got = @ \union {[ret |-> GetECHListOn(echList),
                                               seen |-> echList]}]
    /\ UNCHANGED <<echList, echFrame, sysproxy, store, est, sess>>
    /\ UNCHANGED <<rangeVars, tunnelVars, reloadVars, flowVars, dispatch, frontVars>>

\* GetECHList: defer e.echListMu.RUnlock()
GetRUnlock ==
    /\ ech.calls[Getter].pc = "runlock"
    /\ ech' = [ech EXCEPT !.calls[Getter].pc = "idle", !.readers = @ - 1]
    /\ UNCHANGED <<echList, echFrame, sysproxy, store, est, sess>>
    /\ UNCHANGED <<rangeVars, tunnelVars, reloadVars, flowVars, dispatch, frontVars>>

InitEch ==
    /\ RangeIdle
    /\ NoDial
    /\ TunnelIdle
    /\ ReloadIdle
    /\ sysproxy = NoSysProxy
    /\ store = NoStore
    /\ est = NoEst
    /\ sess = NoSess
    /\ ech = [pc |-> "run", writer |-> FALSE, readers |-> 0,
              calls |-> [c \in Preparers \union {Getter} |-> NoCall],
              stored |-> {}, returned |-> {}, got |-> {}]

NextEch ==
    \/ EchQuery
    \/ EchLock
    \/ EchStore
    \/ EchUnlock
    \/ GetRLock
    \/ GetCheck
    \/ GetRUnlock

SpecEch == InitEch /\ [][NextEch]_vars

\* a failed PrepareECH or RefreshECH has stored nothing
FailedLeavesList == \A r \in ech.returned : r.err # "nil" => r.stores = 0

\* GetECHList fails iff the list it finds is empty, and else returns that list
GetReturnsStored ==
    \A g \in ech.got :
        /\ g.ret.err <=> g.seen = <<>>
        /\ ~g.ret.err => (g.ret.list = g.seen /\ g.ret.list \in ech.stored)

\* the stored list is that of a call that stored one
StoredFromSuccess == echList # <<>> => echList \in ech.stored

\* C31: after any PrepareECH, RefreshECH and GetECHList calls, one after the
\* other or together, the stored ECH list is empty only if no PrepareECH or
\* RefreshECH ever succeeded and is else the list of a successful call; a failed
\* call leaves it unchanged; GetECHList fails iff it is empty and else returns
\* one whole stored list.
C31_StoredListFromSuccess ==
    /\ echList = <<>> => \A r \in ech.returned : r.err # "nil"
    /\ StoredFromSuccess
    /\ FailedLeavesList
    /\ GetReturnsStored

\* the rest of it, without the first part
C31Rest ==
    /\ StoredFromSuccess
    /\ FailedLeavesList
    /\ GetReturnsStored

\* ------------------------- SaveProxyState, SetSystemProxy, RestoreProxyState
\* Settings of the system: on Windows the registry values ProxyEnable,
\* ProxyServer and ProxyOverride (port unused); on GNOME the keys mode (manual
\* or not), socks host, socks port and ignore-hosts.  A text is a sequence of
\* pieces, ":" a piece of its own.
Platforms == {"windows", "gnome"}

OtherProxy == <<"10.0.0.1", ":", "8080">>

SystemSettings ==
    [os : {"windows"}, enabled : BOOLEAN, server : {<<>>, OtherProxy}, port : {<<>>},
     bypass : {<<>>, <<"<local>">>}]
    \cup
    [os : {"gnome"}, enabled : BOOLEAN, server : {<<>>, <<"10.0.0.1">>, <<":", ":", "1">>},
     port : {<<"0">>, <<"8080">>}, bypass : {<<>>, <<"localhost">>}]

\* the listen addresses of the configuration
ListenAddrs == {<<"0.0.0.0", ":", "1080">>, <<"127.0.0.1", ":", "1080">>, <<"1080">>}

WindowsBypass == <<"localhost;127.*;10.*;...;192.168.*;<local>">>
LinuxBypass == <<"localhost,127.*,10.*,...,192.168.*">>

Nil == [nil |-> TRUE]

\* strings.ReplaceAll(text, "0.0.0.0", "127.0.0.1")
ReplaceAll(text) == [i \in 1 .. Len(text) |-> IF text[i] = "0.0.0.0" THEN "127.0.0.1" ELSE text[i]]

\* len(strings.Split(text, ":"))
Parts(text) == Len(SelectSeq(text, LAMBDA c : c = ":")) + 1

\* the two parts of a text with one ":"
PartOne(text) == SubSeq(text, 1, IndexOf(text, ":") - 1)
PartTwo(text) == SubSeq(text, IndexOf(text, ":") + 1, Len(text))

\* getCurrentProxyState
GetCurrentProxyState(sys) ==
    IF sys.os = "windows"
    THEN [Enabled |-> sys.enabled, ProxyServer |-> sys.server, BypassList |-> sys.bypass]
    ELSE IF sys.enabled
         THEN [Enabled |-> TRUE,
               ProxyServer |-> IF sys.server # <<>> /\ sys.port # <<>>
                               THEN sys.server \o <<":">> \o sys.port ELSE <<>>,
               BypassList |-> sys.bypass]
         ELSE [Enabled |-> FALSE, ProxyServer |-> <<>>, BypassList |-> <<>>]

\* SetSystemProxy(true, listenAddr, routingMode): the settings it leaves
SetSystemProxyOn(sys, listenAddr) ==
    IF sys.os = "windows"
    THEN [sys EXCEPT !.enabled = TRUE,
                     !.server = IF Contains(listenAddr, ":") THEN ReplaceAll(listenAddr)
                                ELSE <<"127.0.0.1", ":">> \o listenAddr,
                     !.bypass = WindowsBypass]
    ELSE LET two == Contains(listenAddr, ":") /\ Parts(listenAddr) = 2
         IN  [sys EXCEPT !.enabled = TRUE,
                         !.server = IF two THEN PartOne(listenAddr) ELSE <<"127.0.0.1">>,
                         !.port = IF two THEN PartTwo(listenAddr) ELSE listenAddr,
                         !.bypass = LinuxBypass]

\* RestoreProxyState with originalState = st: the settings it leaves
RestoreProxyStateOn(sys, st) ==
    IF sys.os = "windows"
    THEN [sys EXCEPT !.enabled = st.Enabled,
                     !.server = IF st.ProxyServer # <<>> THEN st.ProxyServer ELSE @,
                     !.bypass = IF st.BypassList # <<>> THEN st.BypassList ELSE @]
    ELSE IF st.Enabled /\ st.ProxyServer # <<>>
         THEN IF Parts(st.ProxyServer) = 2
              THEN [sys EXCEPT !.enabled = TRUE,
                               !.server = PartOne(st.ProxyServer),
                               !.port = PartTwo(st.ProxyServer),
                               !.bypass = IF st.BypassList # <<>> THEN st.BypassList ELSE @]
              ELSE sys
         ELSE [sys EXCEPT !.enabled = FALSE]

sysFrame == <<dialVars, ech, store, est, sess>>

\* SaveProxyState
SaveProxyState ==
    /\ sysproxy.pc = "run"
    /\ sysproxy' = [sysproxy EXCEPT !.originalState = GetCurrentProxyState(sysproxy.sys),
                                     !.atSave = sysproxy.sys,
                                     !.calls = <<"save">>]
    /\ UNCHANGED sysFrame
    /\ UNCHANGED <<rangeVars, tunnelVars, reloadVars, flowVars, dispatch, frontVars>>

\* SetSystemProxy(true, listenAddr, routingMode)
SetSystemProxy ==
    /\ sysproxy.pc = "run"
    /\ Len(sysproxy.calls) < 2
    /\ \E a \in ListenAddrs :
        sysproxy' = [sysproxy EXCEPT !.sys = SetSystemProxyOn(sysproxy.sys, a),
                                      !.calls = Append(@, "set")]
    /\ UNCHANGED sysFrame
    /\ UNCHANGED <<rangeVars, tunnelVars, reloadVars, flowVars, dispatch, frontVars>>

\* RestoreProxyState: nothing to do without a saved state; originalState = nil
\* when it returns
RestoreProxyState ==
    /\ sysproxy.pc = "run"
    /\ sysproxy' = [sysproxy EXCEPT
                      !.sys = IF sysproxy.originalState = Nil THEN @
                              ELSE RestoreProxyStateOn(@, sysproxy.originalState),
                      !.originalState = Nil,
                      !.calls = Append(@, "restore"),
                      !.pc = "restored"]
    /\ UNCHANGED sysFrame
    /\ UNCHANGED <<rangeVars, tunnelVars, reloadVars, flowVars, dispatch, frontVars>>

InitSysProxy ==
    /\ RangeIdle
    /\ NoDial
    /\ TunnelIdle
    /\ ReloadIdle
    /\ ech = NoEch
    /\ store = NoStore
    /\ est = NoEst
    /\ sess = NoSess
    /\ \E sys \in SystemSettings :
        sysproxy = [pc |-> "run", sys |-> sys, originalState |-> Nil, atSave |-> sys,
                    calls |-> <<>>]

NextSysProxy ==
    \/ SaveProxyState
    \/ SetSystemProxy
    \/ RestoreProxyState

SpecSysProxy == InitSysProxy /\ [][NextSysProxy]_vars

SavedSetRestored == sysproxy.calls = <<"save", "set", "restore">>

\* C32: after SaveProxyState, SetSystemProxy(true, listener) and
\* RestoreProxyState the settings of the system (enabled flag, proxy server,
\* bypass list) are those in effect when SaveProxyState ran.
C32_ProxyStateRoundTrip == SavedSetRestored => sysproxy.sys = sysproxy.atSave

\* on Windows, when a server and a bypass list were configured
WindowsConfiguredRestored ==
    (SavedSetRestored /\ sysproxy.sys.os = "windows" /\ sysproxy.atSave.server # <<>>
        /\ sysproxy.atSave.bypass # <<>>) => sysproxy.sys = sysproxy.atSave

\* ------------------------------------------------------ Store.GetOrStore
\* goroutines calling GetOrStore on one Store, each at most MaxCalls times
StoreCallers == {"a", "b"}

NoStoreCall == [pc |-> "idle", n |-> 0, v |-> 0]

\* a GetOrStore without the second test under the lock
RunsFnUnchecked(isStore) == TRUE

\* the test under the lock: fn is called when nothing is stored
RunsFn(isStore) == ~isStore

storeFrame == <<dialVars, ech, sysproxy, est, sess>>

\* if !s.isStore, read without a lock
GosCheck ==
    /\ \E c \in StoreCallers :
        /\ store.calls[c].pc = "idle"
        /\ store.calls[c].n < MaxCalls
        /\ store' = [store EXCEPT !.calls[c].pc = IF store.isStore THEN "rlock" ELSE "lock",
                                   !.calls[c].n = @ + 1]
    /\ UNCHANGED storeFrame
    /\ UNCHANGED <<rangeVars, tunnelVars, reloadVars, flowVars, dispatch, frontVars>>

\* s.rwLocker.Lock(), defer s.rwLocker.Unlock(), and the second test; when
\* something is stored by now the call goes on to RLock with the lock held
GosLock ==
    /\ \E c \in StoreCallers :
        /\ store.calls[c].pc = "lock"
        /\ store.writer = "none"
        /\ store.readers = {}
        /\ store' = [store EXCEPT !.writer = c,
                                   !.calls[c].pc = IF RunsFn(store.isStore) THEN "fn"
                                                   ELSE "rlock"]
    /\ UNCHANGED storeFrame
    /\ UNCHANGED <<rangeVars, tunnelVars, reloadVars, flowVars, dispatch, frontVars>>

\* v, err := fn(): on an error return it, else store v and return s.data;
\* the deferred Unlock runs
GosFn ==
    /\ \E c \in StoreCallers, ok \in BOOLEAN :
        LET v == store.invoked + 1
        IN  /\ store.calls[c].pc = "fn"
            /\ store' = [store EXCEPT
                           !.invoked = v,
                           !.writer = "none",
                           !.calls[c].pc = "idle",
                           !.data = IF ok THEN v ELSE @,
                           !.isStore = IF ok THEN TRUE ELSE @,
                           !.succeeded = IF ok THEN Append(@, v) ELSE @,
                           !.returned = @ \union
                               {[c |-> c, err |-> ~ok, v |-> IF ok THEN v ELSE 0,
                                 stored |-> IF ok THEN TRUE ELSE store.isStore]}]
    /\ UNCHANGED storeFrame
    /\ UNCHANGED <<rangeVars, tunnelVars, reloadVars, flowVars, dispatch, frontVars>>

\* s.rwLocker.RLock(): waits while a writer holds the lock
GosRLock ==
    /\ \E c \in StoreCallers :
        /\ store.calls[c].pc = "rlock"
        /\ store.writer = "none"
        /\ store' = [store EXCEPT !.readers = @ \union {c}, !.calls[c].pc = "read"]
    /\ UNCHANGED storeFrame
    /\ UNCHANGED <<rangeVars, tunnelVars, reloadVars, flowVars, dispatch, frontVars>>

\* return s.data, nil; the deferred RUnlock runs
GosRead ==
    /\ \E c \in StoreCallers :
        /\ store.calls[c].pc = "read"
        /\ store' = [store EXCEPT
                       !.readers = @ \ {c},
                       !.calls[c].pc = "idle",
                       !.returned = @ \union {[c |-> c, err |-> FALSE, v |-> store.data,
                                               stored |-> store.isStore]}]
    /\ UNCHANGED storeFrame
    /\ UNCHANGED <<rangeVars, tunnelVars, reloadVars, flowVars, dispatch, frontVars>>

InitStore ==
    /\ RangeIdle
    /\ NoDial
    /\ TunnelIdle
    /\ ReloadIdle
    /\ ech = NoEch
    /\ sysproxy = NoSysProxy
    /\ est = NoEst
    /\ sess = NoSess
    /\ store = [pc |-> "run", data |-> 0, isStore |-> FALSE, writer |-> "none",
                readers |-> {}, calls |-> [c \in StoreCallers |-> NoStoreCall],
                invoked |-> 0, succeeded |-> <<>>, returned |-> {}]

NextStore ==
    \/ GosCheck
    \/ GosLock
    \/ GosFn
    \/ GosRLock
    \/ GosRead

SpecStore == InitStore /\ [][NextStore]_vars

\* C38: under any interleaving of GetOrStore calls the function completes
\* without error at most once; every call that returns without error returns
\* the one stored value; a call whose function returns an error stores nothing,
\* and while nothing is stored a call runs the function again.
C38_StoresAtMostOnce ==
    /\ Len(store.succeeded) <= 1
    /\ \A r \in store.returned :
        /\ ~r.err => (store.succeeded # <<>> /\ r.v = store.succeeded[1] /\ r.v = store.data)
        /\ (r.err /\ store.succeeded = <<>>) => ~r.stored
    /\ store.isStore <=> store.succeeded # <<>>
    /\ \A c \in StoreCallers :
        store.calls[c].pc = "fn" => (~store.isStore /\ store.writer = c)

C38_Witness ==
    /\ store.invoked = 2
    /\ store.succeeded = <<2>>
    /\ \E r \in store.returned : r.err
    /\ \E r \in store.returned : ~r.err /\ r.c = "a" /\ r.v = 2
    /\ \E r \in store.returned : ~r.err /\ r.c = "b" /\ r.v = 2

\* a call waits for the read lock while it holds the write lock itself
HoldsLockAtRLock ==
    \E c \in StoreCallers : store.calls[c].pc = "rlock" /\ store.writer = c

\* ------------------------------------- a routing mode that is none of the three
\* IPLoader.ShouldBypassProxy(targetHost) called before LoadWithRoutingMode ran
RouteBeforeLoad ==
    /\ startup.pc = "idle"
    /\ \E host \in StartupHosts :
        /\ query' = [op |-> "ShouldBypassProxy", host |-> host]
        /\ answer' = ShouldBypassProxyIn(routingMode, chinaIPRanges, chinaIPV6Ranges, host)
    /\ UNCHANGED <<routingMode, chinaIPRanges, chinaIPV6Ranges, data4, loadErr>>
    /\ UNCHANGED notRangeVars

NextMode ==
    \/ RouteBeforeLoad
    \/ LoadWithRoutingMode
    \/ Serve

SpecMode == InitStartup /\ [][NextMode]_vars

KnownModes == {None, Global, BypassCN}

\* LoadWithRoutingMode met a mode it does not know
UnknownModeSeen == startup.log = <<"warnMode">>

\* C36: a routing mode outside none, global and bypass_cn behaves as global:
\* ShouldBypassProxy answers false for every host before LoadWithRoutingMode
\* has run, LoadWithRoutingMode rewrites the mode to global and loads no table,
\* and ShouldBypassProxy answers false after it.
C36_UnknownModeIsGlobal ==
    /\ (startup.pc = "idle" /\ routingMode \notin KnownModes
            /\ query.op = "ShouldBypassProxy") => answer = FALSE
    /\ (startup.pc # "idle" /\ routingMode \notin KnownModes) => FALSE
    /\ UnknownModeSeen =>
        /\ routingMode = Global
        /\ chinaIPRanges = <<>>
        /\ chinaIPV6Ranges = <<>>
        /\ loadErr = "none"
        /\ query.op = "ShouldBypassProxy" => answer = FALSE

C36_Witness ==
    /\ UnknownModeSeen
    /\ data4 # <<>>
    /\ query.op = "ShouldBypassProxy"
    /\ query.host.kind = "name"
    /\ ~query.host.res.err
    /\ query.host.res.ips # <<>>

\* -------------------------------------------- the connect request of a tunnel
\* The connect request exists three times: WebSocketWrap.Connenct of
\* utils/websocket.go reads nothing from the client, the WebSocketWrap.Connenct
\* of the second utils file reads the client's first bytes with the read
\* deadline commented out, and ProxyServer.handleTunnel reads them under a
\* deadline of 100 ms.
Versions == {"websocket.go", "part_005", "proxyServer.go"}

\* the bytes a client may send after its request, before the tunnel stands
MaxEarly == 2

\* the calls of handleTunnel: SOCKS5 and CONNECT without a first frame, a plain
\* HTTP request with its rewritten request as first frame
TunnelCalls ==
    {[mode |-> ModeSOCKS5, firstFrame |-> <<>>],
     [mode |-> ModeHTTPConnect, firstFrame |-> <<>>],
     [mode |-> ModeHTTPProxy, firstFrame |-> <<"GET / HTTP/1.1\r\n\r\n">>]}

EstTarget == <<"example.com", ":", "443">>

\* if mode == ModeSOCKS5 && len(firstFrame) == 0, in the two versions that read
ReadsFirstFrame(e) ==
    e.version # "websocket.go" /\ e.mode = ModeSOCKS5 /\ e.firstFrame = <<>>

\* conn.SetReadDeadline(time.Now().Add(100 * time.Millisecond))
HasReadDeadline(e) == e.version = "proxyServer.go"

\* fmt.Sprintf of the connect request
ConnenctText(e) ==
    IF e.version = "websocket.go" /\ e.mode = ModeSOCKS5
    THEN <<"CONNECT:">> \o EstTarget \o <<"|", "base64:">> \o e.firstFrame
    ELSE <<"CONNECT:">> \o EstTarget \o <<"|">> \o e.firstFrame

estFrame ==
    <<rangeVars, dialVars, reloadVars, flowVars, dispatch, frontVars, ech, sysproxy, store, sess,
      impl, mode, route, hpc, hret, reply, kpc, cpc, spc, writers, mu, ws, stopPing,
      connOpen, doneClosed, doneBuf, up, down>>

\* the client sends bytes after its request: a client that waits for the
\* answer sends them once the tunnel stands
ClientSends ==
    /\ est.pc \in {"enter", "write", "reply", "established"}
    /\ ~est.closed
    /\ est.client = "eager" \/ est.pc = "established"
    /\ Len(est.inbuf) < MaxEarly
    /\ est' = [est EXCEPT !.inbuf = Append(@, "x")]
    /\ UNCHANGED <<estFrame, clientOut, wsOut>>

\* the client closes its socket
ClientCloses ==
    /\ est.pc \in {"enter", "write", "reply", "established"}
    /\ ~est.closed
    /\ est' = [est EXCEPT !.closed = TRUE]
    /\ UNCHANGED <<estFrame, clientOut, wsOut>>

\* n, _ := conn.Read(buffer) returns: with the bytes the client has sent, or
\* with nothing from a socket the client closed
ConnenctRead ==
    /\ est.pc = "enter"
    /\ ReadsFirstFrame(est)
    /\ est.inbuf # <<>> \/ est.closed
    /\ est' = [est EXCEPT !.pc = "write", !.firstFrame = est.inbuf, !.inbuf = <<>>,
                          !.read = TRUE]
    /\ UNCHANGED <<estFrame, clientOut, wsOut>>

\* conn.Read returns with nothing when the read deadline passes
ConnenctReadTimeout ==
    /\ est.pc = "enter"
    /\ ReadsFirstFrame(est)
    /\ HasReadDeadline(est)
    /\ est.inbuf = <<>>
    /\ est' = [est EXCEPT !.pc = "write", !.read = TRUE]
    /\ UNCHANGED <<estFrame, clientOut, wsOut>>

\* WriteMessage(websocket.TextMessage, connectMsg); an error is answered with
\* SendErrorResponse
ConnenctWrite ==
    /\ est.pc = "write" \/ (est.pc = "enter" /\ ~ReadsFirstFrame(est))
    /\ \E ok \in BOOLEAN :
        IF ok
        THEN /\ wsOut' = Append(wsOut, Text(ConnenctText(est)))
             /\ est' = [est EXCEPT !.pc = "reply"]
             /\ UNCHANGED clientOut
        ELSE /\ clientOut' = SendErrorResponse(clientOut, est.mode)
             /\ est' = [est EXCEPT !.pc = "failed"]
             /\ UNCHANGED wsOut
    /\ UNCHANGED estFrame

\* ReadMessage, the verdict on the answer, the response to the client
ConnenctReply ==
    /\ est.pc = "reply"
    /\ \E r \in ReadResults :
        IF Verdict(r) = "connected"
        THEN /\ clientOut' = SendSuccessResponse(clientOut, est.mode)
             /\ est' = [est EXCEPT !.pc = "established"]
        ELSE /\ clientOut' = SendErrorResponse(clientOut, est.mode)
             /\ est' = [est EXCEPT !.pc = "failed"]
    /\ UNCHANGED <<estFrame, wsOut>>

\* a tunnel call after the routing lookup and the dial, in one of the versions,
\* from a client that sends on or one that waits for the answer
InitConnect ==
    /\ RangeIdle
    /\ NoDial
    /\ TunnelIdle
    /\ ReloadIdle
    /\ ech = NoEch
    /\ sysproxy = NoSysProxy
    /\ store = NoStore
    /\ sess = NoSess
    /\ \E v \in Versions, c \in TunnelCalls, k \in {"eager", "waits"} :
        est = [pc |-> "enter", version |-> v, mode |-> c.mode, firstFrame |-> c.firstFrame,
               client |-> k, inbuf |-> <<>>, closed |-> FALSE, read |-> FALSE]

NextConnect ==
    \/ ClientSends
    \/ ClientCloses
    \/ ConnenctRead
    \/ ConnenctReadTimeout
    \/ ConnenctWrite
    \/ ConnenctReply

SpecConnect == InitConnect /\ [][NextConnect]_vars

\* every step of the proxy is taken when it can be; the client owes nothing
SpecConnectFair ==
    /\ SpecConnect
    /\ WF_vars(ConnenctRead)
    /\ WF_vars(ConnenctReadTimeout)
    /\ WF_vars(ConnenctWrite)
    /\ WF_vars(ConnenctReply)

\* WriteMessage has been called with the connect request
ConnectWritten == est.pc \in {"reply", "established", "failed"}

\* C33: for a SOCKS5 CONNECT routed to the tunnel the connect request is
\* eventually written to the relay, also when the client sends nothing after
\* its request and waits for the SOCKS5 reply: the tunnel never waits for
\* client payload without end.
C33_ConnectEventuallySent ==
    (est.pc = "enter" /\ est.mode = ModeSOCKS5) ~> ConnectWritten

\* the versions that read nothing, or read under a deadline, write the request
ConnectSentWithDeadline ==
    (est.pc = "enter" /\ est.mode = ModeSOCKS5 /\ est.version # "part_005") ~> ConnectWritten

\* ------------------------------------------- the order of the upstream writes
\* CONNECTED has been read and the success response of the mode has been
\* issued on the client socket
Established ==
    /\ reply.read /\ ~reply.err /\ reply.msg = CONNECTED
    /\ mode = ModeSOCKS5 => (clientOut # <<>> /\ clientOut[1] = Synth(Socks5Success))
    /\ mode = ModeHTTPConnect => (clientOut # <<>> /\ clientOut[1] = Synth(Http200))

WaitAfterAgain(step) ==
    CASE step = "send" -> "closeDone"
      [] step = "closeDone" -> "closeWs"
      [] step = "closeWs" -> "wait"

\* wait(): the send, close(p.done), p.wsConn.Close(), return
WaitAfter(step) ==
    CASE step = "send" -> "closeDone"
      [] step = "closeDone" -> "closeWs"
      [] step = "closeWs" -> "returned"

\* a serverToClient that reads again after an error of ReadMessage
AfterReadMessageRetries(err, close) ==
    IF err THEN "read" ELSE IF close THEN "defer" ELSE "write"

\* serverToClient after ReadMessage: an error and the text CLOSE end the task
AfterReadMessage(err, close) == IF err \/ close THEN "defer" ELSE "write"

\* select { case <-p.done: default: }: the receive is taken when wait() is
\* blocked in its send or done is closed
Receive(e) ==
    IF e.h = "send" THEN "received" ELSE IF e.doneClosed THEN "zero" ELSE "default"

\* the session after a deferred select of a task
Deferred(e) == IF Receive(e) = "received" THEN [e EXCEPT !.h = WaitAfter("send")] ELSE e

tdFrame ==
    <<rangeVars, dialVars, tunnelVars, reloadVars, flowVars, dispatch, frontVars,
      ech, sysproxy, store, est>>

Alive == sess.pc = "run" /\ ~sess.panic

\* go p.clientToServer()
SpawnUp ==
    /\ Alive
    /\ sess.h = "go1"
    /\ sess' = [sess EXCEPT !.h = "go2", !.c = "read"]
    /\ UNCHANGED tdFrame

\* go p.serverToClient()
SpawnDown ==
    /\ Alive
    /\ sess.h = "go2"
    /\ sess' = [sess EXCEPT !.h = "wait", !.s = "read"]
    /\ UNCHANGED tdFrame

\* p.done <- struct{}{}: the handler blocks until a task receives; a send on a
\* closed channel panics
WaitEnter ==
    /\ Alive
    /\ sess.h = "wait"
    /\ sess' = IF sess.doneClosed
               THEN [sess EXCEPT !.panic = TRUE, !.lateSends = @ + 1]
               ELSE [sess EXCEPT !.h = "send"]
    /\ UNCHANGED tdFrame

\* close(p.done); closing a closed channel panics
WaitCloseDone ==
    /\ Alive
    /\ sess.h = "closeDone"
    /\ sess' = IF sess.doneClosed
               THEN [sess EXCEPT !.panic = TRUE, !.doneCloses = @ + 1]
               ELSE [sess EXCEPT !.h = WaitAfter("closeDone"), !.doneClosed = TRUE,
                                 !.doneCloses = @ + 1]
    /\ UNCHANGED tdFrame

\* p.wsConn.Close(): close(w.stopPing), w.wsConn.Close()
WaitCloseWs ==
    /\ Alive
    /\ sess.h = "closeWs"
    /\ sess' = IF sess.stopPing
               THEN [sess EXCEPT !.panic = TRUE, !.wsCloses = @ + 1]
               ELSE [sess EXCEPT !.h = WaitAfter("closeWs"), !.stopPing = TRUE,
                                 !.ws = "closed", !.wsCloses = @ + 1]
    /\ UNCHANGED tdFrame

\* handleTunnel and the front-end return, handleConnection runs defer conn.Close()
ConnClose ==
    /\ Alive
    /\ sess.h = "returned"
    /\ sess' = [sess EXCEPT !.h = "closed", !.conn = "closed"]
    /\ UNCHANGED tdFrame

\* KeepAlive: case <-w.stopPing: return
PingStop ==
    /\ Alive
    /\ sess.k = "select"
    /\ sess.stopPing
    /\ sess' = [sess EXCEPT !.k = "stopped"]
    /\ UNCHANGED tdFrame

\* clientToServer: p.Conn.Read returns bytes, or an error (always one on a
\* closed socket)
UpRead ==
    /\ Alive
    /\ sess.c = "read"
    /\ \E err \in BOOLEAN :
        /\ ~err => (sess.conn = "open" /\ sess.up < MaxUp)
        /\ sess' = IF err THEN [sess EXCEPT !.c = "close"]
                   ELSE [sess EXCEPT !.c = "write", !.up = @ + 1]
    /\ UNCHANGED tdFrame

\* clientToServer: WriteMessage(BinaryMessage, buf[:n])
UpWrite ==
    /\ Alive
    /\ sess.c = "write"
    /\ \E err \in BOOLEAN :
        /\ ~err => sess.ws = "open"
        /\ sess' = [sess EXCEPT !.c = IF err THEN "defer" ELSE "read"]
    /\ UNCHANGED tdFrame

\* clientToServer: WriteMessage(TextMessage, "CLOSE"), its error dropped
UpClose ==
    /\ Alive
    /\ sess.c = "close"
    /\ sess' = [sess EXCEPT !.c = "defer"]
    /\ UNCHANGED tdFrame

\* clientToServer returns: the deferred select
UpDefer ==
    /\ Alive
    /\ sess.c = "defer"
    /\ sess' = [Deferred(sess) EXCEPT !.c = "gone", !.got = @ \union {<<"c2s", Receive(sess)>>}]
    /\ UNCHANGED tdFrame

\* serverToClient: ReadMessage returns an error (always one on a closed
\* WebSocket), the text CLOSE, or a message
DownRead ==
    /\ Alive
    /\ sess.s = "read"
    /\ \E err, close \in BOOLEAN :
        /\ ~err => sess.ws = "open"
        /\ err => ~close
        /\ (~err /\ ~close) => sess.down < MaxDown
        /\ sess' = [sess EXCEPT !.s = AfterReadMessage(err, close),
                                !.down = IF err \/ close THEN @ ELSE @ + 1]
    /\ UNCHANGED tdFrame

\* serverToClient: p.Conn.Write(msg)
DownWrite ==
    /\ Alive
    /\ sess.s = "write"
    /\ \E err \in BOOLEAN :
        /\ ~err => sess.conn = "open"
        /\ sess' = [sess EXCEPT !.s = IF err THEN "defer" ELSE "read"]
    /\ UNCHANGED tdFrame

\* serverToClient returns: the deferred select
DownDefer ==
    /\ Alive
    /\ sess.s = "defer"
    /\ sess' = [Deferred(sess) EXCEPT !.s = "gone", !.got = @ \union {<<"s2c", Receive(sess)>>}]
    /\ UNCHANGED tdFrame

\* connenct has returned nil: the WebSocket is open, KeepAlive runs
InitTeardown ==
    /\ RangeIdle
    /\ NoDial
    /\ TunnelIdle
    /\ ReloadIdle
    /\ ech = NoEch
    /\ sysproxy = NoSysProxy
    /\ store = NoStore
    /\ est = NoEst
    /\ sess = [pc |-> "run", h |-> "go1", c |-> "none", s |-> "none", k |-> "select",
               ws |-> "open", conn |-> "open", doneClosed |-> FALSE, stopPing |-> FALSE,
               doneCloses |-> 0, wsCloses |-> 0, lateSends |-> 0, panic |-> FALSE,
               up |-> 0, down |-> 0, got |-> {}]

NextTeardown ==
    \/ SpawnUp
    \/ SpawnDown
    \/ WaitEnter
    \/ WaitCloseDone
    \/ WaitCloseWs
    \/ ConnClose
    \/ PingStop
    \/ UpRead
    \/ UpWrite
    \/ UpClose
    \/ UpDefer
    \/ DownRead
    \/ DownWrite
    \/ DownDefer

SpecTeardown == InitTeardown /\ [][NextTeardown]_vars

\* every goroutine runs; a read returns its error once its socket is closed,
\* and returns nothing for ever from a peer that is silent
SpecTeardownFair ==
    /\ SpecTeardown
    /\ WF_vars(SpawnUp)
    /\ WF_vars(SpawnDown)
    /\ WF_vars(WaitEnter)
    /\ WF_vars(WaitCloseDone)
    /\ WF_vars(WaitCloseWs)
    /\ WF_vars(ConnClose)
    /\ WF_vars(PingStop)
    /\ WF_vars(sess.conn = "closed" /\ UpRead)
    /\ WF_vars(UpWrite)
    /\ WF_vars(UpClose)
    /\ WF_vars(UpDefer)
    /\ WF_vars(sess.ws = "closed" /\ DownRead)
    /\ WF_vars(DownWrite)
    /\ WF_vars(DownDefer)

\* the task has returned
TaskOver(pc) == pc = "gone"

ClosedMeansError ==
    [][(sess.pc = "run" /\ sess.ws = "closed" /\ sess.conn = "closed") =>
          /\ sess'.c \in {sess.c, "close", "defer", "gone"}
          /\ sess'.s \in {sess.s, "defer", "gone"}]_vars

\* C37: in a tunnel session, under every interleaving of the two forwarding
\* tasks and the handler in wait(), WebSocketWrap.Close (which closes stopPing)
\* and the close of done are each executed at most once and nothing is sent on
\* done after it is closed: no close of a closed channel and no send on a
\* closed channel is reached.
C37_ClosedOnce ==
    sess.pc = "run" =>
        /\ sess.doneCloses <= 1
        /\ sess.wsCloses <= 1
        /\ sess.lateSends = 0
        /\ ~sess.panic
        /\ sess.doneClosed <=> sess.doneCloses = 1
        /\ sess.stopPing <=> sess.wsCloses = 1

\* wait() has run to its end after one task took the send and the other found
\* done closed
C37_Witness ==
    /\ sess.pc = "run"
    /\ sess.h = "closed"
    /\ sess.doneCloses = 1
    /\ sess.wsCloses = 1
    /\ \E a, b \in {"c2s", "s2c"} : {<<a, "received">>, <<b, "zero">>} \subseteq sess.got

====
